---- MODULE Spec2Model ----
(***************************************************************************)
(* Request lifecycle and eligibility policy of the room-rent frontend.     *)
(*                                                                         *)
(* Spec        the landlord dashboard (MalikDashboard): loadData, the      *)
(*             limit timer effect, handleSendRequest and the send button.  *)
(* SpecBhadot  the tenant dashboard (BhadotDashboard): loadData, the       *)
(*             countdown effect and handleUpdateRequest.                   *)
(*                                                                         *)
(* Times are milliseconds, as Date.getTime() gives them.  The backend is   *)
(* an external collaborator: it answers every call with any outcome the    *)
(* REST contract allows.                                                   *)
(***************************************************************************)
EXTENDS Integers, Sequences, FiniteSets, TLC

VARIABLES
    now,               \* wall clock (Date.now())
    server,            \* backend: this landlord's requests, in insertion order
    mounted,           \* MalikDashboard is mounted
    malik,             \* useState<Malik | null>
    bhadots,           \* useState<Bhadot[]> (the ids)
    requests,          \* useState<RentRequestWithDetails[]>
    loading,           \* useState(true)
    sendingRequest,    \* useState<string | null>
    pendingCount,      \* useState(0)
    canSendMore,       \* useState(true)
    nextAvailableTime, \* useState<Date | null>
    timeRemaining,     \* useState<string>('')
    limitIntervals,    \* live setInterval handles of the limit timer effect
    loads,             \* loadData calls in flight, oldest first
    posts,             \* sendRentalRequest calls in flight, oldest first
    alertMsg,          \* the last alert() shown
    bServer,           \* backend: this tenant's requests
    bMounted,          \* BhadotDashboard is mounted
    bhadot,            \* useState<Bhadot | null>
    bRequests,         \* useState<RentRequestWithDetails[]>
    bLoading,          \* useState(true)
    updatingRequest,   \* useState<string | null>
    countdown,         \* useState<{days, hours, minutes, seconds} | null>
    oldestAccepted,    \* the request the live countdown interval closes over
    bLoads,            \* tenant loadData calls in flight
    puts,              \* updateRequestStatus calls in flight
    toast,             \* useState<{message, type} | null>
    bIntervals,        \* live setInterval handles of the tenant's effects
    regMounted,        \* MalikRegister is mounted
    step,              \* useState<'phone' | 'details' | 'login'>('phone')
    whatsapp,          \* useState('') of MalikRegister: the number input
    formWhatsapp,      \* formData.whatsapp
    regError,          \* useState('') of MalikRegister: error
    searchResult,      \* useState<{found, role?, user?} | null>(null)
    searching,         \* useState(false)
    regLoading,        \* useState(false) of MalikRegister: loading
    searches,          \* searchUser calls in flight
    auths,             \* login and register calls in flight
    adminMounted,      \* AdminDashboard is mounted
    adminServer,       \* backend: the users, by role
    users,             \* useState<{ maliks: User[]; bhadots: User[] }>
    adminLoading,      \* useState(true) of AdminDashboard: loading
    activeTab,         \* useState<'stats' | 'users' | 'transactions'>('stats')
    malikPage,         \* useState(1)
    bhadotPage,        \* useState(1)
    editingMalik,      \* useState<string | null>(null)
    editingBhadot,     \* useState<string | null>(null)
    editFormData,      \* useState<any>({})
    saving,            \* useState(false)
    adminToast,        \* useState<{message, type} | null>(null) of AdminDashboard
    adminLoads,        \* AdminDashboard.loadData calls in flight
    adminWrites,       \* deleteUser and update calls in flight
    chatMounted,       \* AdminChat is mounted
    conversations,     \* useState<Conversation[]>([]) (the ids)
    selectedUser,      \* useState<{id, role} | null>(null) (the id)
    messages,          \* useState<Message[]>([])
    chatLoading,       \* useState(false) of AdminChat: loading
    chatIntervals,     \* live setInterval handles of the selected-user effect
    fetches,           \* getMessages calls in flight
    chatServer         \* backend: the messages of each conversation

mvars == <<now, server, mounted, malik, bhadots, requests, loading,
           sendingRequest, pendingCount, canSendMore, nextAvailableTime,
           timeRemaining, limitIntervals, loads, posts, alertMsg>>

bvars == <<bServer, bMounted, bhadot, bRequests, bLoading, updatingRequest,
           countdown, oldestAccepted, bLoads, puts, toast, bIntervals>>

rvars == <<regMounted, step, whatsapp, formWhatsapp, regError, searchResult,
           searching, regLoading, searches, auths>>

avars == <<adminMounted, adminServer, users, adminLoading, activeTab,
           malikPage, bhadotPage, editingMalik, editingBhadot, editFormData,
           saving, adminToast, adminLoads, adminWrites>>

cvars == <<chatMounted, conversations, selectedUser, messages, chatLoading,
           chatIntervals, fetches, chatServer>>

(* The pages besides the two dashboards *)
ovars == <<rvars, avars, cvars>>

vars == <<mvars, bvars, ovars>>

----------------------------------------------------------------------------
(* Bounds of the model *)

NumBhadots == 2
MaxReqs == 2
MaxDrift == 1
MaxInFlight == 2
MaxEvalReqs == 3
MaxAdminCalls == 1
MaxMsgs == 2

(* Program constants *)

Null == -1
NaN == -2
DAY_MS == 24 * 60 * 60 * 1000
FIVE_DAYS_MS == 5 * 24 * 60 * 60 * 1000
MaxPending == 2

Bhadots == 1..NumBhadots
Statuses == {"Pending", "Accepted", "Rejected"}

(* The landlord's clock starts one day and a millisecond after time 0, so   *)
(* that a request made before mount lies on the edge of the 24-hour window  *)
(* or a millisecond inside it.                                              *)
T0 == DAY_MS + 1
InitTimes == {T0 - DAY_MS, T0 - DAY_MS + 1}
ClockSteps == {1}
MaxNow == T0 + MaxDrift

----------------------------------------------------------------------------
(* loadData's evaluation of the request limit *)

(* Mutant: everything not Rejected is taken for Pending. *)
IsPending_NotRejected(req) == req.status # "Rejected"

IsPending(req) == req.status = "Pending"

(* Mutant: the edge of the 24-hour window is counted. *)
IsActivePending_Inclusive(req, t) ==
    IF req.status # "Pending" THEN FALSE ELSE req.timestamp >= t - DAY_MS

(* new Date(req.timestamp) of a malformed or missing timestamp is an       *)
(* Invalid Date, whose time value is NaN: every comparison with it is      *)
(* false.                                                                  *)
IsActivePending(req, t) ==
    IF req.status # "Pending" THEN FALSE
    ELSE req.timestamp # NaN /\ req.timestamp > t - DAY_MS

ActivePending(requestsData, t) ==
    SelectSeq(requestsData, LAMBDA req: IsActivePending(req, t))

AllPending(requestsData) == SelectSeq(requestsData, IsPending)

(* The comparator of the sort; Array.prototype.sort takes a NaN result for *)
(* +0.                                                                     *)
CompareTimestamps(a, b) ==
    IF a.timestamp = NaN \/ b.timestamp = NaN THEN 0
    ELSE a.timestamp - b.timestamp

InsertSorted(sorted, req) ==
    LET k == Cardinality({i \in 1..Len(sorted) :
                             CompareTimestamps(sorted[i], req) <= 0})
    IN  SubSeq(sorted, 1, k) \o <<req>> \o SubSeq(sorted, k + 1, Len(sorted))

(* Mutant: the list is taken in the order the backend gave it. *)
SortByTimestamp_Unsorted(s) == s

RECURSIVE SortByTimestamp(_)
SortByTimestamp(s) ==
    IF Len(s) <= 1 THEN s
    ELSE InsertSorted(SortByTimestamp(SubSeq(s, 1, Len(s) - 1)), s[Len(s)])

(* getTime() + 24h; NaN stays NaN. *)
PlusDay(ts) == IF ts = NaN THEN NaN ELSE ts + DAY_MS

(* Mutant: the comparator is reversed, so the newest Pending request is taken. *)
NextAvailable_Newest(requestsData) ==
    LET allPending == AllPending(requestsData)
    IN  IF Len(allPending) > 0
        THEN LET sortedPending == SortByTimestamp(allPending)
                 oldestRequest == sortedPending[Len(sortedPending)]
             IN  PlusDay(oldestRequest.timestamp)
        ELSE Null

NextAvailable(requestsData) ==
    LET allPending == AllPending(requestsData)
    IN  IF Len(allPending) > 0
        THEN LET sortedPending == SortByTimestamp(allPending)
                 oldestRequest == sortedPending[1]
             IN  PlusDay(oldestRequest.timestamp)
        ELSE Null

(* Mutant: off by one, a third request is let through. *)
CanSend_OffByOne(activeCount) == activeCount <= MaxPending

CanSend(activeCount) == activeCount < MaxPending

----------------------------------------------------------------------------
(* The limit timer effect's updateTimer *)

NoTime == [fmt |-> "", a |-> 0, b |-> 0]

(* Mutant: the timer never reloads. *)
TimerExpired_Never(nat, csm, t) == FALSE

(* An Invalid Date is an object, so truthy; its diff is NaN and NaN > 0 is *)
(* false.                                                                  *)
TimerExpired(nat, csm, t) ==
    nat # Null /\ ~csm /\ (nat = NaN \/ ~(nat - t > 0))

TimeRemainingOf(nat, csm, t) ==
    IF nat # Null /\ ~csm
    THEN LET diff == nat - t
             hours == diff \div (1000 * 60 * 60)
             minutes == (diff % (1000 * 60 * 60)) \div (1000 * 60)
             seconds == (diff % (1000 * 60)) \div 1000
         IN  IF nat # NaN /\ diff > 0
             THEN IF hours > 0 THEN [fmt |-> "hm", a |-> hours, b |-> minutes]
                  ELSE IF minutes > 0 THEN [fmt |-> "ms", a |-> minutes, b |-> seconds]
                  ELSE [fmt |-> "s", a |-> seconds, b |-> 0]
             ELSE NoTime
    ELSE NoTime

----------------------------------------------------------------------------
(* The send button of a tenant card *)

HasPendingRequest(b) ==
    \E i \in 1..Len(requests) :
        requests[i].bhadotId = b /\ requests[i].status = "Pending"

(* Mutant: the button forgets the duplicate check. *)
SendDisabled_NoDuplicateCheck(b) == sendingRequest = b \/ ~canSendMore

SendDisabled(b) == HasPendingRequest(b) \/ sendingRequest = b \/ ~canSendMore

ButtonLabel(b) ==
    IF sendingRequest = b THEN "spinner"
    ELSE IF HasPendingRequest(b) THEN "requestSent"
    ELSE IF ~canSendMore THEN "limitReached"
    ELSE "sendRequest"

(* Why the card's button is greyed out: the label chain after the spinner. *)
BlockedReason(b) ==
    IF HasPendingRequest(b) THEN "duplicate"
    ELSE IF ~canSendMore THEN "limit"
    ELSE "none"

LimitBanner == IF canSendMore THEN "canSendMoreRequests" ELSE "limitReached"

Rendered == mounted /\ ~loading /\ malik # "null"

(* alert() is modal: nothing of the page runs until the user dismisses it. *)
Frozen == alertMsg # "none"

----------------------------------------------------------------------------
(* Calls in flight *)

Sent == [st |-> "sent", requests |-> <<>>]

Remove(s, i) == SubSeq(s, 1, i - 1) \o SubSeq(s, i + 1, Len(s))

InFlight == Len(loads) + Len(posts)

(* A call of loadData joins the calls in flight.  latest marks the call    *)
(* after which no other was started; the program keeps no such mark.       *)
StartLoad(ls, k) ==
    [j \in 1..Len(ls) |-> [ls[j] EXCEPT !.latest = FALSE]]
        \o <<[by |-> k, resp |-> Sent, latest |-> TRUE]>>

NewRequest(b) ==
    [id |-> Len(server) + 1, bhadotId |-> b, status |-> "Pending", timestamp |-> now]

----------------------------------------------------------------------------
(* Effects and their intervals *)

(* Mutant: the cleanup leaves the interval running. *)
ClearInterval_Leak(n) == n

(* The cleanup of an effect run that called setInterval: clearInterval *)
ClearInterval(n) == n - 1

SetInterval(n) == n + 1

NoIntervals == [countdown |-> 0, rooms |-> 0]

----------------------------------------------------------------------------
(* The other pages before they are opened: the initial values of their     *)
(* useState calls.                                                         *)

rInit ==
    /\ regMounted = FALSE
    /\ step = "phone"
    /\ whatsapp = <<>>
    /\ formWhatsapp = <<>>
    /\ regError = ""
    /\ searchResult = <<>>
    /\ searching = FALSE
    /\ regLoading = FALSE
    /\ searches = <<>>
    /\ auths = <<>>

ITEMS_PER_PAGE == 10

(* The admin's backend holds one user more than a page takes, of each role. *)
NumUsers == ITEMS_PER_PAGE + 1

AllUsers == [j \in 1..NumUsers |-> j]

(* editFormData: the keys of the object and the row whose values it took *)
EmptyForm == [fields |-> {}, role |-> "none", id |-> Null]

aClientInit ==
    /\ adminMounted = FALSE
    /\ users = [maliks |-> <<>>, bhadots |-> <<>>]
    /\ adminLoading = TRUE
    /\ activeTab = "stats"
    /\ malikPage = 1
    /\ bhadotPage = 1
    /\ editingMalik = Null
    /\ editingBhadot = Null
    /\ editFormData = EmptyForm
    /\ saving = FALSE
    /\ adminToast = "null"
    /\ adminLoads = <<>>
    /\ adminWrites = <<>>

aInit ==
    /\ adminServer = [maliks |-> AllUsers, bhadots |-> AllUsers]
    /\ aClientInit

Conversations == {1, 2}

Message(u, k) == [conv |-> u, id |-> k]

cInit ==
    /\ chatMounted = FALSE
    /\ conversations = {}
    /\ selectedUser = Null
    /\ messages = <<>>
    /\ chatLoading = FALSE
    /\ chatIntervals = 0
    /\ fetches = <<>>
    /\ chatServer = [u \in Conversations |-> <<Message(u, 1)>>]

oInit == rInit /\ aInit /\ cInit

----------------------------------------------------------------------------
(* Landlord dashboard *)

bUnchanged == UNCHANGED <<bvars, ovars>>

(* The dashboard is mounted (again, once the calls of an earlier instance   *)
(* have settled): the mount effect loads, the timer effect starts its      *)
(* interval.                                                               *)
Mount ==
    /\ ~mounted
    /\ ~Frozen
    /\ loads = <<>>
    /\ posts = <<>>
    /\ mounted' = TRUE
    /\ loading' = TRUE
    /\ loads' = StartLoad(loads, "mount")
    /\ timeRemaining' = TimeRemainingOf(nextAvailableTime, canSendMore, now)
    /\ limitIntervals' = SetInterval(limitIntervals)
    /\ UNCHANGED <<now, server, malik, bhadots, requests, sendingRequest,
                   pendingCount, canSendMore, nextAvailableTime, posts, alertMsg>>
    /\ bUnchanged

(* The backend reads the landlord's requests for a fetch in flight. *)
ServerReplyLoad(i) ==
    /\ i \in 1..Len(loads)
    /\ loads[i].resp.st = "sent"
    /\ loads' = [loads EXCEPT ![i].resp = [st |-> "read", requests |-> server]]
    /\ UNCHANGED <<now, server, mounted, malik, bhadots, requests, loading,
                   sendingRequest, pendingCount, canSendMore, nextAvailableTime,
                   timeRemaining, posts, alertMsg>>
    /\ UNCHANGED limitIntervals
    /\ bUnchanged

(* What Promise.all hands to loadData: getMalik rejects on failure (and so  *)
(* does the whole load), getMalikBhadots and getMalikRequests fall back to  *)
(* the empty list (apiCall's fallbackData).                                 *)
Outcomes(resp) ==
    {[st |-> "throw", bhadots |-> {}, requests |-> <<>>]}
    \cup {[st |-> "ok", bhadots |-> bs, requests |-> <<>>] : bs \in {{}, Bhadots}}
    \cup IF resp.st = "read"
         THEN {[st |-> "ok", bhadots |-> bs, requests |-> resp.requests] :
                 bs \in {{}, Bhadots}}
         ELSE {}

(* Mutant: the derived values are not recomputed. *)
Evaluate_Stale(requestsData, t) ==
    [nextAvailableTime |-> nextAvailableTime,
     pendingCount |-> pendingCount,
     canSendMore |-> canSendMore]

(* loadData's evaluation of requestsData at time t *)
Evaluate(requestsData, t) ==
    LET activePending == ActivePending(requestsData, t)
    IN  [nextAvailableTime |-> NextAvailable(requestsData),
         pendingCount |-> Len(activePending),
         canSendMore |-> CanSend(Len(activePending))]

(* A state update of an unmounted component is dropped. *)
LoadSettles(i, out) ==
    LET l == loads[i]
        ok == out.st = "ok" /\ mounted
        ev == Evaluate(out.requests, now)
        newNext == IF ok THEN ev.nextAvailableTime ELSE nextAvailableTime
        newCan == IF ok THEN ev.canSendMore ELSE canSendMore
        depsChanged == ok /\ (~(nextAvailableTime = Null /\ newNext = Null)
                              \/ newCan # canSendMore)
        reload == mounted /\ depsChanged /\ TimerExpired(newNext, newCan, now)
    IN  /\ malik' = IF ok THEN "loaded" ELSE malik
        /\ bhadots' = IF ok THEN out.bhadots ELSE bhadots
        /\ requests' = IF ok THEN out.requests ELSE requests
        /\ nextAvailableTime' = newNext
        /\ pendingCount' = IF ok THEN ev.pendingCount ELSE pendingCount
        /\ canSendMore' = newCan
        /\ timeRemaining' = IF depsChanged /\ mounted
                            THEN TimeRemainingOf(newNext, newCan, now)
                            ELSE timeRemaining
        /\ limitIntervals' = IF depsChanged /\ mounted
                             THEN SetInterval(ClearInterval(limitIntervals))
                             ELSE limitIntervals
        /\ loading' = IF mounted THEN reload ELSE loading
        /\ loads' = IF reload THEN StartLoad(Remove(loads, i), "timer")
                    ELSE Remove(loads, i)
        /\ alertMsg' = IF l.by = "send" THEN "sent" ELSE alertMsg

LoadDone(i) ==
    /\ ~Frozen
    /\ i \in 1..Len(loads)
    /\ \E out \in Outcomes(loads[i].resp) : LoadSettles(i, out)
    /\ UNCHANGED <<now, server, mounted, posts, sendingRequest>>
    /\ bUnchanged

(* Mutant: the tick only repaints the time, it never reloads. *)
TimerTick_NoReload ==
    /\ limitIntervals > 0
    /\ ~Frozen
    /\ timeRemaining' = TimeRemainingOf(nextAvailableTime, canSendMore, now)
    /\ UNCHANGED <<now, server, mounted, malik, bhadots, requests, loading,
                   sendingRequest, pendingCount, canSendMore, nextAvailableTime,
                   loads, posts, alertMsg, limitIntervals>>
    /\ bUnchanged

TimerTick ==
    /\ limitIntervals > 0
    /\ ~Frozen
    /\ LET reload == TimerExpired(nextAvailableTime, canSendMore, now)
       IN  /\ reload => InFlight < MaxInFlight
           /\ timeRemaining' = TimeRemainingOf(nextAvailableTime, canSendMore, now)
           /\ loading' = (loading \/ reload)
           /\ loads' = IF reload
                       THEN StartLoad(loads, "timer")
                       ELSE loads
    /\ UNCHANGED <<now, server, mounted, malik, bhadots, requests,
                   sendingRequest, pendingCount, canSendMore, nextAvailableTime,
                   posts, alertMsg>>
    /\ UNCHANGED limitIntervals
    /\ bUnchanged

HandleSendRequest(b) ==
    IF ~canSendMore
    THEN /\ alertMsg' = "limit"
         /\ UNCHANGED <<sendingRequest, posts>>
    ELSE /\ sendingRequest' = b
         /\ posts' = Append(posts, [bhadotId |-> b, st |-> "sent"])
         /\ UNCHANGED alertMsg

ClickSend(b) ==
    /\ Rendered
    /\ ~Frozen
    /\ b \in bhadots
    /\ ~SendDisabled(b)
    /\ InFlight < MaxInFlight
    /\ HandleSendRequest(b)
    /\ UNCHANGED <<now, server, mounted, malik, bhadots, requests, loading,
                   pendingCount, canSendMore, nextAvailableTime, timeRemaining,
                   loads>>
    /\ UNCHANGED limitIntervals
    /\ bUnchanged

(* The backend accepts a new request that is in flight. *)
ServerHandlePost(i) ==
    /\ i \in 1..Len(posts)
    /\ posts[i].st = "sent"
    /\ Len(server) < MaxReqs
    /\ server' = Append(server, NewRequest(posts[i].bhadotId))
    /\ posts' = [posts EXCEPT ![i].st = "ok"]
    /\ UNCHANGED <<now, mounted, malik, bhadots, requests, loading,
                   sendingRequest, pendingCount, canSendMore, nextAvailableTime,
                   timeRemaining, loads, alertMsg>>
    /\ UNCHANGED limitIntervals
    /\ bUnchanged

(* sendRentalRequest settles: the backend is the authority and may refuse, *)
(* and a call may fail on the way there or back.                           *)
PostDone(i, ok) ==
    /\ ~Frozen
    /\ i \in 1..Len(posts)
    /\ ok => posts[i].st = "ok"
    /\ posts' = Remove(posts, i)
    /\ IF ok
       THEN /\ loading' = IF mounted THEN TRUE ELSE loading
            /\ loads' = StartLoad(loads, "send")
            /\ UNCHANGED alertMsg
       ELSE /\ alertMsg' = "error"
            /\ UNCHANGED <<loading, loads>>
    /\ UNCHANGED <<now, server, mounted, malik, bhadots, requests, sendingRequest,
                   pendingCount, canSendMore, nextAvailableTime, timeRemaining>>
    /\ UNCHANGED limitIntervals
    /\ bUnchanged

(* Mutant: the finally block forgets the in-flight marker. *)
DismissAlert_KeepsMarker ==
    /\ Frozen
    /\ alertMsg' = "none"
    /\ UNCHANGED <<now, server, mounted, malik, bhadots, requests, loading,
                   sendingRequest, pendingCount, canSendMore, nextAvailableTime,
                   timeRemaining, loads, posts, limitIntervals>>
    /\ bUnchanged

(* The user dismisses the alert; handleSendRequest then runs its finally   *)
(* block, unless the alert was the limit message before the early return.  *)
DismissAlert ==
    /\ Frozen
    /\ alertMsg' = "none"
    /\ sendingRequest' = IF alertMsg = "limit" THEN sendingRequest ELSE Null
    /\ UNCHANGED <<now, server, mounted, malik, bhadots, requests, loading,
                   pendingCount, canSendMore, nextAvailableTime, timeRemaining,
                   loads, posts>>
    /\ UNCHANGED limitIntervals
    /\ bUnchanged

(* The landlord leaves the page: the cleanup of the timer effect runs and  *)
(* the component's state is gone; calls in flight still settle.            *)
Unmount ==
    /\ mounted
    /\ ~Frozen
    /\ mounted' = FALSE
    /\ limitIntervals' = ClearInterval(limitIntervals)
    /\ malik' = "null"
    /\ bhadots' = {}
    /\ requests' = <<>>
    /\ loading' = TRUE
    /\ sendingRequest' = Null
    /\ pendingCount' = 0
    /\ canSendMore' = TRUE
    /\ nextAvailableTime' = Null
    /\ timeRemaining' = NoTime
    /\ UNCHANGED <<now, server, loads, posts, alertMsg>>
    /\ bUnchanged

(* Another session of the same landlord creates a request. *)
OtherSessionCreate(b) ==
    /\ Len(server) < MaxReqs
    /\ server' = Append(server, NewRequest(b))
    /\ UNCHANGED <<now, mounted, malik, bhadots, requests, loading,
                   sendingRequest, pendingCount, canSendMore, nextAvailableTime,
                   timeRemaining, loads, posts, alertMsg>>
    /\ UNCHANGED limitIntervals
    /\ bUnchanged

(* A tenant accepts or rejects a Pending request. *)
TenantResponds(i, st) ==
    /\ i \in 1..Len(server)
    /\ server[i].status = "Pending"
    /\ server' = [server EXCEPT ![i].status = st]
    /\ UNCHANGED <<now, mounted, malik, bhadots, requests, loading,
                   sendingRequest, pendingCount, canSendMore, nextAvailableTime,
                   timeRemaining, loads, posts, alertMsg>>
    /\ UNCHANGED limitIntervals
    /\ bUnchanged

Tick(d) ==
    /\ now + d <= MaxNow
    /\ now' = now + d
    /\ UNCHANGED <<server, mounted, malik, bhadots, requests, loading,
                   sendingRequest, pendingCount, canSendMore, nextAvailableTime,
                   timeRemaining, loads, posts, alertMsg>>
    /\ UNCHANGED limitIntervals
    /\ bUnchanged

InitRequest(i, b, ts) ==
    [id |-> i, bhadotId |-> b, status |-> "Pending", timestamp |-> ts]

(* The requests the landlord made before the dashboard was mounted, in the  *)
(* order they were made.                                                    *)
InitServers ==
    {<<>>}
    \cup {<<InitRequest(1, b, ts)>> : b \in Bhadots, ts \in InitTimes}
    \cup {<<InitRequest(1, p[1], p[2]), InitRequest(2, p[3], p[4])>> :
            p \in {q \in Bhadots \X InitTimes \X Bhadots \X InitTimes : q[2] <= q[4]}}

bInit ==
    /\ bServer = <<>>
    /\ bMounted = FALSE
    /\ bhadot = "null"
    /\ bRequests = <<>>
    /\ bLoading = TRUE
    /\ updatingRequest = Null
    /\ countdown = <<>>
    /\ oldestAccepted = Null
    /\ bLoads = <<>>
    /\ puts = <<>>
    /\ toast = "null"
    /\ bIntervals = NoIntervals
    /\ oInit

Init ==
    /\ now = T0
    /\ server \in InitServers
    /\ mounted = FALSE
    /\ malik = "null"
    /\ bhadots = {}
    /\ requests = <<>>
    /\ loading = TRUE
    /\ sendingRequest = Null
    /\ pendingCount = 0
    /\ canSendMore = TRUE
    /\ nextAvailableTime = Null
    /\ timeRemaining = NoTime
    /\ limitIntervals = 0
    /\ loads = <<>>
    /\ posts = <<>>
    /\ alertMsg = "none"
    /\ bInit

Next ==
    \/ Mount
    \/ \E i \in 1..MaxInFlight : ServerReplyLoad(i)
    \/ \E i \in 1..MaxInFlight : LoadDone(i)
    \/ TimerTick
    \/ \E b \in Bhadots : ClickSend(b)
    \/ \E i \in 1..MaxInFlight : ServerHandlePost(i)
    \/ \E i \in 1..MaxInFlight, ok \in BOOLEAN : PostDone(i, ok)
    \/ DismissAlert
    \/ Unmount
    \/ \E b \in Bhadots : OtherSessionCreate(b)
    \/ \E i \in 1..MaxReqs, st \in {"Accepted", "Rejected"} : TenantResponds(i, st)
    \/ \E d \in ClockSteps : Tick(d)

Spec == Init /\ [][Next]_vars

----------------------------------------------------------------------------
(* The evaluation of loadData over the lists a fetch can return: the       *)
(* backend holds any list of up to MaxEvalReqs requests, the dashboard is  *)
(* mounted at any of EvalNows and loads (and reloads) it.                  *)

EvalTimes == {T0 - DAY_MS - 1, T0 - DAY_MS, T0 - DAY_MS + 1, T0}
EvalNows == {T0, T0 + 1}

EvalRequest(i, x) ==
    [id |-> i, bhadotId |-> ((i - 1) % NumBhadots) + 1, status |-> x[1],
     timestamp |-> x[2]]

EvalServers ==
    UNION {{[i \in 1..n |-> EvalRequest(i, f[i])] :
              f \in [1..n -> Statuses \X EvalTimes]} : n \in 0..MaxEvalReqs}

InitEval ==
    /\ now \in EvalNows
    /\ server \in EvalServers
    /\ mounted = FALSE
    /\ malik = "null"
    /\ bhadots = {}
    /\ requests = <<>>
    /\ loading = TRUE
    /\ sendingRequest = Null
    /\ pendingCount = 0
    /\ canSendMore = TRUE
    /\ nextAvailableTime = Null
    /\ timeRemaining = NoTime
    /\ limitIntervals = 0
    /\ loads = <<>>
    /\ posts = <<>>
    /\ alertMsg = "none"
    /\ bInit

NextEval ==
    \/ Mount
    \/ \E i \in 1..MaxInFlight : ServerReplyLoad(i)
    \/ \E i \in 1..MaxInFlight : LoadDone(i)
    \/ TimerTick

SpecEval == InitEval /\ [][NextEval]_vars

----------------------------------------------------------------------------
(* Tenant dashboard: the countdown effect *)

(* Mutant: everything not Rejected is taken for Accepted. *)
IsAccepted_NotRejected(req) == req.status # "Rejected"

IsAccepted(req) == req.status = "Accepted"

AcceptedRequests(reqs) == SelectSeq(reqs, IsAccepted)

(* Mutant: the reduce keeps the newer of the two. *)
OlderOf_Newer(oldest, current) ==
    IF current.timestamp > oldest.timestamp THEN current ELSE oldest

(* Mutant: the reduce replaces the oldest also by a newer or equal one. *)
OlderOf_NotOlder(oldest, current) ==
    IF current.timestamp >= oldest.timestamp THEN current ELSE oldest

OlderOf(oldest, current) ==
    IF /\ current.timestamp # NaN
       /\ oldest.timestamp # NaN
       /\ current.timestamp < oldest.timestamp
    THEN current ELSE oldest

RECURSIVE ReduceOldest(_, _)
ReduceOldest(oldest, rest) ==
    IF rest = <<>> THEN oldest
    ELSE ReduceOldest(OlderOf(oldest, Head(rest)), Tail(rest))

OldestAccepted(acceptedRequests) ==
    ReduceOldest(Head(acceptedRequests), Tail(acceptedRequests))

ZeroCountdown == [days |-> 0, hours |-> 0, minutes |-> 0, seconds |-> 0]

(* Math.floor of NaN in every field *)
NaNCountdown == [days |-> NaN, hours |-> NaN, minutes |-> NaN, seconds |-> NaN]

(* Mutant: the clamp at zero is missing. *)
UpdateCountdown_NoClamp(acceptedTime, t) ==
    LET diff == (acceptedTime + FIVE_DAYS_MS) - t
    IN  [days |-> diff \div (1000 * 60 * 60 * 24),
         hours |-> (diff % (1000 * 60 * 60 * 24)) \div (1000 * 60 * 60),
         minutes |-> (diff % (1000 * 60 * 60)) \div (1000 * 60),
         seconds |-> (diff % (1000 * 60)) \div 1000]

(* Mutant: the hours are not reduced modulo a day. *)
UpdateCountdown_HoursNotReduced(acceptedTime, t) ==
    LET diff == (acceptedTime + FIVE_DAYS_MS) - t
    IN  IF diff <= 0 THEN ZeroCountdown
        ELSE [days |-> diff \div (1000 * 60 * 60 * 24),
              hours |-> diff \div (1000 * 60 * 60),
              minutes |-> (diff % (1000 * 60 * 60)) \div (1000 * 60),
              seconds |-> (diff % (1000 * 60)) \div 1000]

(* Mutant: after the first evaluation the display is counted down by one   *)
(* second per evaluation instead of being recomputed from the clock.       *)
UpdateCountdown_Decrement(acceptedTime, t) ==
    LET diff == (acceptedTime + FIVE_DAYS_MS) - t
        shown == IF countdown = <<>> THEN 0
                 ELSE countdown[1].days * 86400 + countdown[1].hours * 3600
                        + countdown[1].minutes * 60 + countdown[1].seconds
        left == IF countdown = <<>> THEN (IF diff <= 0 THEN 0 ELSE diff \div 1000)
                ELSE IF shown > 0 THEN shown - 1 ELSE 0
    IN  [days |-> left \div 86400,
         hours |-> (left % 86400) \div 3600,
         minutes |-> (left % 3600) \div 60,
         seconds |-> left % 60]

UpdateCountdown(acceptedTime, t) ==
    LET fiveDaysLater == acceptedTime + FIVE_DAYS_MS
        diff == fiveDaysLater - t
    IN  IF acceptedTime = NaN THEN NaNCountdown
        ELSE IF diff <= 0 THEN ZeroCountdown
        ELSE [days |-> diff \div (1000 * 60 * 60 * 24),
              hours |-> (diff % (1000 * 60 * 60 * 24)) \div (1000 * 60 * 60),
              minutes |-> (diff % (1000 * 60 * 60)) \div (1000 * 60),
              seconds |-> (diff % (1000 * 60)) \div 1000]

(* The effect on [requests]: the countdown it sets at once, and the         *)
(* timestamp its interval closes over (Null: no interval).                  *)
CountdownEffect(reqs, t) ==
    LET acceptedRequests == AcceptedRequests(reqs)
    IN  IF Len(acceptedRequests) = 0
        THEN [countdown |-> <<>>, oldestAccepted |-> Null]
        ELSE LET oldest == OldestAccepted(acceptedRequests)
             IN  [countdown |-> <<UpdateCountdown(oldest.timestamp, t)>>,
                  oldestAccepted |-> oldest.timestamp]

(* The countdown effect runs again: the cleanup of the previous run clears *)
(* its interval, if it had started one (it returns early, without a        *)
(* cleanup, when there is no Accepted request), and the new run starts one *)
(* unless it returns early.                                                *)
RerunCountdownEffect(n, hadInterval, effect) ==
    LET cleared == IF hadInterval THEN ClearInterval(n) ELSE n
    IN  IF effect.oldestAccepted # Null THEN SetInterval(cleared) ELSE cleared

----------------------------------------------------------------------------
(* Tenant dashboard *)

mUnchanged ==
    UNCHANGED <<server, mounted, malik, bhadots, requests, loading,
                sendingRequest, pendingCount, canSendMore, nextAvailableTime,
                timeRemaining, limitIntervals, loads, posts, alertMsg, ovars>>

BInFlight == Len(bLoads) + Len(puts)

BRendered == bMounted /\ ~bLoading /\ bhadot # "null"

(* The dashboard is mounted (again, once the calls of an earlier instance   *)
(* have settled): the mount effect loads and starts the room-count poll,   *)
(* the countdown effect runs over the empty list.                          *)
BMount ==
    /\ ~bMounted
    /\ bLoads = <<>>
    /\ puts = <<>>
    /\ bMounted' = TRUE
    /\ bLoading' = TRUE
    /\ bLoads' = Append(bLoads, [by |-> "mount", resp |-> Sent])
    /\ countdown' = CountdownEffect(bRequests, now).countdown
    /\ oldestAccepted' = CountdownEffect(bRequests, now).oldestAccepted
    /\ bIntervals' =
          [rooms |-> SetInterval(bIntervals.rooms),
           countdown |-> RerunCountdownEffect(bIntervals.countdown, FALSE,
                                              CountdownEffect(bRequests, now))]
    /\ UNCHANGED <<now, bServer, bhadot, bRequests, updatingRequest, puts, toast>>
    /\ mUnchanged

(* The backend reads the tenant's requests for a fetch in flight. *)
BServerReplyLoad(i) ==
    /\ i \in 1..Len(bLoads)
    /\ bLoads[i].resp.st = "sent"
    /\ bLoads' = [bLoads EXCEPT ![i].resp = [st |-> "read", requests |-> bServer]]
    /\ UNCHANGED <<now, bServer, bMounted, bhadot, bRequests, bLoading,
                   updatingRequest, countdown, oldestAccepted, puts, toast>>
    /\ UNCHANGED bIntervals
    /\ mUnchanged

(* loadData settles: with the fetched list, or in its catch block (axios   *)
(* rejects on every failure).  A load started by handleUpdateRequest then  *)
(* lets the handler show its toast and run its finally block.              *)
(* A state update of an unmounted component is dropped.                    *)
BLoadDone(i, ok) ==
    /\ i \in 1..Len(bLoads)
    /\ ok => bLoads[i].resp.st = "read"
    /\ LET l == bLoads[i]
           set == ok /\ bMounted
           effect == CountdownEffect(l.resp.requests, now)
       IN  /\ bhadot' = IF set THEN "loaded" ELSE bhadot
           /\ bRequests' = IF set THEN l.resp.requests ELSE bRequests
           /\ countdown' = IF set THEN effect.countdown ELSE countdown
           /\ oldestAccepted' = IF set THEN effect.oldestAccepted
                                ELSE oldestAccepted
           /\ bIntervals' =
                 IF set
                 THEN [bIntervals EXCEPT !.countdown =
                         RerunCountdownEffect(@, oldestAccepted # Null, effect)]
                 ELSE bIntervals
           /\ bLoading' = IF bMounted THEN FALSE ELSE bLoading
           /\ bLoads' = Remove(bLoads, i)
           /\ toast' = IF l.by = "update" /\ bMounted THEN "success" ELSE toast
           /\ updatingRequest' = IF l.by = "update" THEN Null ELSE updatingRequest
    /\ UNCHANGED <<now, bServer, bMounted, puts>>
    /\ mUnchanged

(* The one-second interval of the countdown effect fires. *)
CountdownTick ==
    /\ bIntervals.countdown > 0
    /\ oldestAccepted # Null
    /\ countdown' = <<UpdateCountdown(oldestAccepted, now)>>
    /\ UNCHANGED <<now, bServer, bMounted, bhadot, bRequests, bLoading,
                   updatingRequest, oldestAccepted, bLoads, puts, toast>>
    /\ UNCHANGED bIntervals
    /\ mUnchanged

(* The Accept and Reject buttons are rendered for the Pending requests of  *)
(* the list, disabled for the request being updated.                       *)
UpdateButtons ==
    {r.id : r \in {bRequests[k] : k \in {j \in 1..Len(bRequests) :
                                            bRequests[j].status = "Pending"}}}

HandleUpdateRequest(requestId, status) ==
    /\ updatingRequest' = requestId
    /\ puts' = Append(puts, [id |-> requestId, status |-> status, st |-> "sent"])

ClickUpdate(requestId, status) ==
    /\ BRendered
    /\ requestId \in UpdateButtons
    /\ updatingRequest # requestId
    /\ BInFlight < MaxInFlight
    /\ HandleUpdateRequest(requestId, status)
    /\ UNCHANGED <<now, bServer, bMounted, bhadot, bRequests, bLoading, countdown,
                   oldestAccepted, bLoads, toast>>
    /\ UNCHANGED bIntervals
    /\ mUnchanged

(* The backend applies a status change to a request that is Pending and    *)
(* refuses it otherwise (InvalidTransition).                               *)
BServerHandlePut(i) ==
    /\ i \in 1..Len(puts)
    /\ puts[i].st = "sent"
    /\ LET k == CHOOSE j \in 1..Len(bServer) : bServer[j].id = puts[i].id
       IN  IF bServer[k].status = "Pending"
           THEN /\ bServer' = [bServer EXCEPT ![k].status = puts[i].status]
                /\ puts' = [puts EXCEPT ![i].st = "ok"]
           ELSE /\ puts' = [puts EXCEPT ![i].st = "refused"]
                /\ UNCHANGED bServer
    /\ UNCHANGED <<now, bMounted, bhadot, bRequests, bLoading, updatingRequest,
                   countdown, oldestAccepted, bLoads, toast>>
    /\ UNCHANGED bIntervals
    /\ mUnchanged

(* Mutant: on success the handler edits the status in the list itself and  *)
(* does not reload.                                                        *)
PutDone_EditsList(i, ok) ==
    /\ i \in 1..Len(puts)
    /\ ok => puts[i].st = "ok"
    /\ puts' = Remove(puts, i)
    /\ bRequests' =
          IF ok /\ bMounted
          THEN [k \in 1..Len(bRequests) |->
                  IF bRequests[k].id = puts[i].id
                  THEN [bRequests[k] EXCEPT !.status = puts[i].status]
                  ELSE bRequests[k]]
          ELSE bRequests
    /\ toast' = IF bMounted THEN (IF ok THEN "success" ELSE "error") ELSE toast
    /\ updatingRequest' = Null
    /\ UNCHANGED <<now, bServer, bMounted, bhadot, bLoading, bLoads, countdown,
                   oldestAccepted>>
    /\ UNCHANGED bIntervals
    /\ mUnchanged

(* updateRequestStatus settles: on success handleUpdateRequest reloads, on *)
(* a refusal or a failed call it shows the error toast.                    *)
PutDone(i, ok) ==
    /\ i \in 1..Len(puts)
    /\ ok => puts[i].st = "ok"
    /\ puts' = Remove(puts, i)
    /\ IF ok
       THEN /\ bLoading' = IF bMounted THEN TRUE ELSE bLoading
            /\ bLoads' = Append(bLoads, [by |-> "update", resp |-> Sent])
            /\ UNCHANGED <<toast, updatingRequest>>
       ELSE /\ toast' = IF bMounted THEN "error" ELSE toast
            /\ updatingRequest' = Null
            /\ UNCHANGED <<bLoading, bLoads>>
    /\ UNCHANGED <<now, bServer, bMounted, bhadot, bRequests, countdown,
                   oldestAccepted>>
    /\ UNCHANGED bIntervals
    /\ mUnchanged

ToastClose ==
    /\ toast # "null"
    /\ toast' = "null"
    /\ UNCHANGED <<now, bServer, bMounted, bhadot, bRequests, bLoading,
                   updatingRequest, countdown, oldestAccepted, bLoads, puts>>
    /\ UNCHANGED bIntervals
    /\ mUnchanged

(* The tenant leaves the page: the cleanups of the mount effect and of the *)
(* countdown effect run and the component's state is gone; calls in flight *)
(* still settle.                                                           *)
BUnmount ==
    /\ bMounted
    /\ bMounted' = FALSE
    /\ bIntervals' =
          [rooms |-> ClearInterval(bIntervals.rooms),
           countdown |-> IF oldestAccepted # Null
                         THEN ClearInterval(bIntervals.countdown)
                         ELSE bIntervals.countdown]
    /\ bhadot' = "null"
    /\ bRequests' = <<>>
    /\ bLoading' = TRUE
    /\ updatingRequest' = Null
    /\ countdown' = <<>>
    /\ oldestAccepted' = Null
    /\ toast' = "null"
    /\ UNCHANGED <<now, bServer, bLoads, puts>>
    /\ mUnchanged

(* A landlord sends this tenant a request. *)
LandlordSends ==
    /\ Len(bServer) < MaxReqs
    /\ bServer' = Append(bServer, [id |-> Len(bServer) + 1, status |-> "Pending",
                                   timestamp |-> now])
    /\ UNCHANGED <<now, bMounted, bhadot, bRequests, bLoading, updatingRequest,
                   countdown, oldestAccepted, bLoads, puts, toast>>
    /\ UNCHANGED bIntervals
    /\ mUnchanged

(* The tenant's clock starts five days after time 0. *)
B0 == FIVE_DAYS_MS
BInitTimes == {0, 1000}

BTick(d) ==
    /\ now + d <= B0 + MaxDrift
    /\ now' = now + d
    /\ UNCHANGED <<bServer, bMounted, bhadot, bRequests, bLoading, updatingRequest,
                   countdown, oldestAccepted, bLoads, puts, toast>>
    /\ UNCHANGED bIntervals
    /\ mUnchanged

mInit ==
    /\ server = <<>>
    /\ mounted = FALSE
    /\ malik = "null"
    /\ bhadots = {}
    /\ requests = <<>>
    /\ loading = TRUE
    /\ sendingRequest = Null
    /\ pendingCount = 0
    /\ canSendMore = TRUE
    /\ nextAvailableTime = Null
    /\ timeRemaining = NoTime
    /\ limitIntervals = 0
    /\ loads = <<>>
    /\ posts = <<>>
    /\ alertMsg = "none"

bClientInit ==
    /\ bMounted = FALSE
    /\ bhadot = "null"
    /\ bRequests = <<>>
    /\ bLoading = TRUE
    /\ updatingRequest = Null
    /\ countdown = <<>>
    /\ oldestAccepted = Null
    /\ bLoads = <<>>
    /\ puts = <<>>
    /\ toast = "null"
    /\ bIntervals = NoIntervals
    /\ oInit

BRequest(i, st, ts) == [id |-> i, status |-> st, timestamp |-> ts]

(* The requests the tenant received before the dashboard was mounted. *)
BInitServers ==
    {<<>>}
    \cup {<<BRequest(1, st, ts)>> : st \in Statuses, ts \in BInitTimes}
    \cup {<<BRequest(1, p[1], p[2]), BRequest(2, p[3], p[4])>> :
            p \in {q \in Statuses \X BInitTimes \X Statuses \X BInitTimes :
                     q[2] <= q[4]}}

InitBhadot ==
    /\ now = B0
    /\ bServer \in BInitServers
    /\ bClientInit
    /\ mInit

NextBhadot ==
    \/ BMount
    \/ \E i \in 1..MaxInFlight : BServerReplyLoad(i)
    \/ \E i \in 1..MaxInFlight, ok \in BOOLEAN : BLoadDone(i, ok)
    \/ CountdownTick
    \/ \E id \in 1..MaxReqs, st \in {"Accepted", "Rejected"} : ClickUpdate(id, st)
    \/ \E i \in 1..MaxInFlight : BServerHandlePut(i)
    \/ \E i \in 1..MaxInFlight, ok \in BOOLEAN : PutDone(i, ok)
    \/ ToastClose
    \/ BUnmount
    \/ LandlordSends
    \/ \E d \in ClockSteps : BTick(d)

SpecBhadot == InitBhadot /\ [][NextBhadot]_vars

(* The countdown over the lists a fetch can return: the backend holds any  *)
(* list of up to MaxEvalReqs requests and the dashboard is mounted at any  *)
(* of CountdownNows.                                                       *)
CountdownTimes == {0, 1000}
CountdownNows ==
    {0, 999, 1000, 59999, 3599000, 3661001, 86400000, 90061001, 431999001,
     432000000, 432000001, 432001000, 432001001}

CountdownServers ==
    UNION {{[i \in 1..n |-> BRequest(i, f[i][1], f[i][2])] :
              f \in [1..n -> Statuses \X CountdownTimes]} : n \in 0..MaxEvalReqs}

InitCountdown ==
    /\ now \in CountdownNows
    /\ bServer \in CountdownServers
    /\ bClientInit
    /\ mInit

(* Any amount of time passes between two timer ticks. *)
TimePasses(t) ==
    /\ t > now
    /\ now' = t
    /\ UNCHANGED <<bServer, bMounted, bhadot, bRequests, bLoading, updatingRequest,
                   countdown, oldestAccepted, bLoads, puts, toast>>
    /\ UNCHANGED bIntervals
    /\ mUnchanged

NextCountdown ==
    \/ BMount
    \/ \E i \in 1..MaxInFlight : BServerReplyLoad(i)
    \/ \E i \in 1..MaxInFlight, ok \in BOOLEAN : BLoadDone(i, ok)
    \/ CountdownTick
    \/ \E t \in CountdownNows : TimePasses(t)

SpecCountdown == InitCountdown /\ [][NextCountdown]_vars

----------------------------------------------------------------------------
(* Claims *)

PendingIn(reqs) == {i \in 1..Len(reqs) : reqs[i].status = "Pending"}

MinOf(S) == CHOOSE x \in S : \A y \in S : x <= y

IssuesPost == Len(posts') > Len(posts)

IssuesPostTo(b) == IssuesPost /\ posts'[Len(posts')].bhadotId = b

(* C1: whenever the last evaluation found two or more active Pending       *)
(* requests, canSendMore is false, the limit is what the dashboard shows   *)
(* (the banner, and every tenant card that is not a duplicate), every send *)
(* button is disabled and no step issues sendRentalRequest.                *)
C1_LimitBlocksSend ==
    [][pendingCount >= 2 =>
         /\ ~canSendMore
         /\ LimitBanner = "limitReached"
         /\ \A b \in Bhadots :
               /\ SendDisabled(b)
               /\ BlockedReason(b) \in {"limit", "duplicate"}
               /\ ~HasPendingRequest(b) => BlockedReason(b) = "limit"
         /\ ~IssuesPost]_vars

C1_Witness ==
    /\ Rendered
    /\ bhadots = Bhadots
    /\ pendingCount >= 2
    /\ \E b \in Bhadots : ~HasPendingRequest(b)

(* C2: after a load, pendingCount is exactly the number of requests of the *)
(* list that are Pending and were created strictly after now - 24h.        *)
C2_ActivePendingCount ==
    malik = "loaded" =>
        pendingCount = Cardinality({i \in 1..Len(requests) :
                                       /\ requests[i].status = "Pending"
                                       /\ requests[i].timestamp > now - DAY_MS})

C2_Witness ==
    /\ malik = "loaded"
    /\ pendingCount = 1
    /\ \E i \in PendingIn(requests) : requests[i].timestamp = now - DAY_MS
    /\ \E i \in 1..Len(requests) :
          requests[i].status = "Accepted" /\ requests[i].timestamp > now - DAY_MS

(* C3: a Pending request to a tenant in the landlord's list, of any age,   *)
(* disables that tenant's send button with the duplicate reason, whatever  *)
(* pendingCount is, and no step issues sendRentalRequest for that tenant.  *)
C3_DuplicateBlocksSend ==
    [][\A b \in Bhadots :
          HasPendingRequest(b) =>
             /\ SendDisabled(b)
             /\ BlockedReason(b) = "duplicate"
             /\ ~IssuesPostTo(b)]_vars

C3_Witness ==
    /\ Rendered
    /\ ~Frozen
    /\ canSendMore
    /\ \E b \in bhadots : \E i \in PendingIn(requests) :
          /\ requests[i].bhadotId = b
          /\ now - requests[i].timestamp > DAY_MS
    /\ \E b \in bhadots : ~SendDisabled(b)

(* C4: whenever the list holds a Pending request, nextAvailableTime is the *)
(* least timestamp over all its Pending requests plus 24 hours.            *)
C4_NextAvailableFromOldestPending ==
    (malik = "loaded" /\ PendingIn(requests) # {}) =>
        nextAvailableTime =
            MinOf({requests[i].timestamp : i \in PendingIn(requests)}) + 86400000

C4_Witness ==
    /\ malik = "loaded"
    /\ \E i, j \in PendingIn(requests) :
          /\ requests[i].timestamp < now - DAY_MS
          /\ requests[j].timestamp > now - DAY_MS
          /\ i > j
    /\ nextAvailableTime < now

(* C5: when the landlord is blocked by the cap, evaluating the same list   *)
(* at nextAvailableTime, or at any later time, finds fewer than two active *)
(* Pending requests.                                                       *)
C5_SlotOpensAtNextAvailable ==
    (malik = "loaded" /\ ~canSendMore) =>
        \A t \in {nextAvailableTime, nextAvailableTime + 1,
                  IF now > nextAvailableTime THEN now ELSE nextAvailableTime} :
            Evaluate(requests, t).canSendMore

(* C6: a list without a Pending request evaluates to canSendMore, no       *)
(* active Pending request and no nextAvailableTime.                        *)
C6_NoPendingAlwaysEligible ==
    PendingIn(requests) = {} =>
        /\ canSendMore
        /\ pendingCount = 0
        /\ nextAvailableTime = Null

C6_Witness ==
    /\ malik = "loaded"
    /\ PendingIn(requests) = {}
    /\ \E i, j \in 1..Len(requests) :
          requests[i].status = "Accepted" /\ requests[j].status = "Rejected"

AcceptedIn(reqs) == {i \in 1..Len(reqs) : reqs[i].status = "Accepted"}

MinAcceptedAt(reqs) == MinOf({reqs[i].timestamp : i \in AcceptedIn(reqs)})

(* The countdown is evaluated: by a tick of its interval, or by the effect *)
(* when it changes the displayed value.                                    *)
CountdownEvaluated == CountdownTick \/ countdown' # countdown

RemainingMs(reqs, t) ==
    LET d == (MinAcceptedAt(reqs) + 432000000) - t IN IF d < 0 THEN 0 ELSE d

TotalSeconds(c) == c.days * 86400 + c.hours * 3600 + c.minutes * 60 + c.seconds

(* C7: a status change is requested only for a request that is Pending in *)
(* the tenant's current list, and only to Accepted or Rejected; a request  *)
(* the list shows as Accepted or Rejected never shows as Pending again (so *)
(* it is never asked to change again).                                     *)
C7_StatusNeverReverses ==
    [][/\ \A k \in 1..Len(bRequests) : \A j \in 1..Len(bRequests') :
             (bRequests[k].status # "Pending" /\ bRequests'[j].id = bRequests[k].id)
                => bRequests'[j].status # "Pending"
       /\ Len(puts') > Len(puts) =>
             LET p == puts'[Len(puts')]
             IN  /\ p.status \in {"Accepted", "Rejected"}
                 /\ \E k \in 1..Len(bRequests) :
                       bRequests[k].id = p.id /\ bRequests[k].status = "Pending"]_vars

(* C8: the countdown runs from the least timestamp among the Accepted      *)
(* requests of the list alone: its interval closes over that timestamp,    *)
(* and every evaluation shows that timestamp plus five days minus now.     *)
C8_CountdownFromOldestAccepted ==
    /\ [](oldestAccepted = IF AcceptedIn(bRequests) = {} THEN Null
                           ELSE MinAcceptedAt(bRequests))
    /\ [][(CountdownEvaluated /\ AcceptedIn(bRequests') # {}) =>
             /\ countdown' # <<>>
             /\ TotalSeconds(countdown'[1]) = RemainingMs(bRequests', now') \div 1000]_vars

C8_Witness ==
    /\ bhadot = "loaded"
    /\ countdown # <<>>
    /\ countdown[1] # ZeroCountdown
    /\ \E i, j \in AcceptedIn(bRequests) :
          i < j /\ bRequests[j].timestamp < bRequests[i].timestamp
    /\ \E i \in 1..Len(bRequests) : bRequests[i].status = "Pending"
    /\ oldestAccepted = 0

(* C9: evaluated at or after the oldest Accepted request's timestamp plus  *)
(* five days, the countdown is all zeros; no field is ever negative.       *)
C9_ClampedAtZero ==
    /\ [](countdown # <<>> =>
             /\ countdown[1].days >= 0
             /\ countdown[1].hours >= 0
             /\ countdown[1].minutes >= 0
             /\ countdown[1].seconds >= 0)
    /\ [][(/\ CountdownEvaluated
           /\ AcceptedIn(bRequests') # {}
           /\ now' >= MinAcceptedAt(bRequests') + 432000000) =>
             countdown' = <<[days |-> 0, hours |-> 0, minutes |-> 0, seconds |-> 0]>>]_vars

C9_Witness ==
    /\ bhadot = "loaded"
    /\ AcceptedIn(bRequests) # {}
    /\ now >= MinAcceptedAt(bRequests) + 432000000 + 1000
    /\ countdown = <<ZeroCountdown>>

(* C10: the fields are the canonical decomposition of the clamped          *)
(* remaining time in whole seconds.                                        *)
C10_CanonicalDecomposition ==
    /\ [](countdown # <<>> =>
             /\ countdown[1].days >= 0
             /\ countdown[1].hours \in 0..23
             /\ countdown[1].minutes \in 0..59
             /\ countdown[1].seconds \in 0..59)
    /\ [][(CountdownEvaluated /\ countdown' # <<>>) =>
             /\ AcceptedIn(bRequests') # {}
             /\ countdown'[1].days * 86400 + countdown'[1].hours * 3600
                  + countdown'[1].minutes * 60 + countdown'[1].seconds
                = RemainingMs(bRequests', now') \div 1000]_vars

C10_Witness ==
    /\ countdown # <<>>
    /\ countdown[1].days > 0
    /\ countdown[1].hours > 0
    /\ countdown[1].minutes > 0
    /\ countdown[1].seconds > 0
    /\ (MinAcceptedAt(bRequests) + FIVE_DAYS_MS - now) % 1000 # 0

(* C11: whenever the tenant's list holds no Accepted request the countdown *)
(* is null and no interval is live, and a reload that yields such a list   *)
(* while a countdown is shown sets it to null again.                       *)
C11_NoAcceptedNoCountdown ==
    /\ [](AcceptedIn(bRequests) = {} => (countdown = <<>> /\ oldestAccepted = Null))
    /\ [][(countdown # <<>> /\ AcceptedIn(bRequests') = {}) => countdown' = <<>>]_vars

C11_Witness ==
    /\ bhadot = "loaded"
    /\ bLoads = <<>>
    /\ toast = "success"
    /\ \E i \in 1..Len(bRequests) : bRequests[i].status = "Pending"
    /\ \E i \in 1..Len(bRequests) : bRequests[i].status = "Rejected"
    /\ AcceptedIn(bRequests) = {}
    /\ AcceptedIn(bServer) # {}
    /\ countdown = <<>>

LoadStartedBy(k) ==
    \/ Len(loads') > Len(loads) /\ loads'[Len(loads')].by = k
    \/ /\ k = "timer"
       /\ mounted
       /\ loading'
       /\ \E i \in 1..Len(loads) : \E out \in Outcomes(loads[i].resp) :
             LoadSettles(i, out)

LimitPassed == nextAvailableTime # Null /\ ~canSendMore /\ nextAvailableTime <= now

(* C13, as stated: loadData is started by the mount effect and by          *)
(* handleSendRequest only, never by the timer.                             *)
C13_ReloadOnlyOnMountOrSend == [][~LoadStartedBy("timer")]_vars

(* C13, amended: loadData is also started by the limit timer, exactly when *)
(* it evaluates with the limit on and nextAvailableTime not in the future; *)
(* every other load is started by the mount effect or after a send.        *)
C13_ReloadAlsoByExpiredTimer ==
    /\ [][LoadStartedBy("timer") =>
             (mounted' /\ nextAvailableTime' # Null /\ ~canSendMore'
                /\ nextAvailableTime' <= now')]_vars
    /\ [][(TimerTick /\ LimitPassed) => LoadStartedBy("timer")]_vars
    /\ [][LoadStartedBy("mount") => (~mounted /\ mounted')]_vars
    /\ [][LoadStartedBy("send") => Len(posts') < Len(posts)]_vars

C13_Witness ==
    /\ mounted
    /\ malik = "loaded"
    /\ LimitPassed
    /\ loading
    /\ \E i \in 1..Len(loads) : loads[i].by = "timer"

(* C14: the landlord's list is only ever replaced by a list the backend    *)
(* returned for a fetch in flight; a failed fetch never replaces it (by    *)
(* the empty list, with no active Pending request and canSendMore true).   *)
C14_FetchFailureNotEmptyList ==
    [][requests' # requests =>
          \E i \in 1..Len(loads) :
             /\ loads[i].resp.st = "read"
             /\ requests' = loads[i].resp.requests]_vars

----------------------------------------------------------------------------
(* Lists with malformed timestamps: both dashboards are mounted over any   *)
(* list of one or two requests whose timestamps are well formed or not.    *)

MalformedTimes == {NaN, T0 - DAY_MS + 1}

MalformedServers ==
    {<<>>}
    \cup {<<EvalRequest(1, x)>> : x \in Statuses \X MalformedTimes}
    \cup {<<EvalRequest(1, x), EvalRequest(2, y)>> :
            x \in Statuses \X MalformedTimes, y \in Statuses \X MalformedTimes}

BMalformedServers ==
    {<<>>}
    \cup {<<BRequest(1, x[1], x[2])>> : x \in Statuses \X MalformedTimes}
    \cup {<<BRequest(1, x[1], x[2]), BRequest(2, y[1], y[2])>> :
            x \in Statuses \X MalformedTimes, y \in Statuses \X MalformedTimes}

mClientInit ==
    /\ mounted = FALSE
    /\ malik = "null"
    /\ bhadots = {}
    /\ requests = <<>>
    /\ loading = TRUE
    /\ sendingRequest = Null
    /\ pendingCount = 0
    /\ canSendMore = TRUE
    /\ nextAvailableTime = Null
    /\ timeRemaining = NoTime
    /\ limitIntervals = 0
    /\ loads = <<>>
    /\ posts = <<>>
    /\ alertMsg = "none"

InitMalformed ==
    /\ now = T0
    /\ server \in MalformedServers
    /\ bServer \in BMalformedServers
    /\ mClientInit
    /\ bClientInit

NextMalformed ==
    \/ Mount
    \/ \E i \in 1..MaxInFlight : ServerReplyLoad(i)
    \/ \E i \in 1..MaxInFlight : LoadDone(i)
    \/ TimerTick
    \/ BMount
    \/ \E i \in 1..MaxInFlight : BServerReplyLoad(i)
    \/ \E i \in 1..MaxInFlight, ok \in BOOLEAN : BLoadDone(i, ok)
    \/ CountdownTick

SpecMalformed == InitMalformed /\ [][NextMalformed]_vars

WellFormed(reqs) == SelectSeq(reqs, LAMBDA r : r.timestamp # NaN)

(* C15: the derived values are those of the list without its malformed     *)
(* records, and none of them is not-a-number.                              *)
C15_MalformedExcluded ==
    /\ malik = "loaded" =>
          LET ev == Evaluate(WellFormed(requests), now)
          IN  /\ pendingCount = ev.pendingCount
              /\ canSendMore = ev.canSendMore
              /\ nextAvailableTime = ev.nextAvailableTime
    /\ bhadot = "loaded" =>
          countdown = CountdownEffect(WellFormed(bRequests), now).countdown
    /\ nextAvailableTime # NaN
    /\ countdown # <<>> => countdown[1] # NaNCountdown

----------------------------------------------------------------------------
(* Unordered lists: both dashboards are mounted over a backend list in any *)
(* order, with equal timestamps allowed.  The tenant's list is drawn with  *)
(* the landlord's: the same timestamps in the same order, and Accepted     *)
(* where the landlord's request is Pending, so that both dashboards meet   *)
(* their out-of-order case in the same behaviour.                          *)

TwinStatus(st) ==
    CASE st = "Pending" -> "Accepted"
      [] st = "Accepted" -> "Rejected"
      [] st = "Rejected" -> "Pending"

TwinList(reqs) ==
    [i \in 1..Len(reqs) |->
        BRequest(i, TwinStatus(reqs[i].status), reqs[i].timestamp)]

InitOrder ==
    /\ now \in EvalNows
    /\ server \in EvalServers
    /\ bServer = TwinList(server)
    /\ mClientInit
    /\ bClientInit

SpecOrder == InitOrder /\ [][NextMalformed]_vars

Reorderings(s) ==
    {[i \in 1..Len(s) |-> s[f[i]]] :
        f \in {g \in [1..Len(s) -> 1..Len(s)] :
                 \A a, b \in 1..Len(s) : a # b => g[a] # g[b]}}

(* C16: what the landlord's dashboard shows (nextAvailableTime,            *)
(* pendingCount, canSendMore) and what the tenant's shows (the countdown   *)
(* and the timestamp it runs from) is what every reordering of the loaded  *)
(* list evaluates to, equal timestamps included.                           *)
C16_OrderIndependent ==
    /\ malik = "loaded" =>
          \A p \in Reorderings(requests) :
             Evaluate(p, now) = [nextAvailableTime |-> nextAvailableTime,
                                 pendingCount |-> pendingCount,
                                 canSendMore |-> canSendMore]
    /\ bhadot = "loaded" =>
          \A p \in Reorderings(bRequests) :
             CountdownEffect(p, now) = [countdown |-> countdown,
                                        oldestAccepted |-> oldestAccepted]

C16_Witness ==
    /\ malik = "loaded"
    /\ bhadot = "loaded"
    /\ \E i, j \in PendingIn(requests) :
          i < j /\ requests[i].timestamp > requests[j].timestamp
    /\ \E i, j \in PendingIn(requests) :
          i # j /\ requests[i].timestamp = requests[j].timestamp
    /\ \E i, j \in AcceptedIn(bRequests) :
          i < j /\ bRequests[i].timestamp > bRequests[j].timestamp
    /\ \E i, j \in AcceptedIn(bRequests) :
          i # j /\ bRequests[i].timestamp = bRequests[j].timestamp
    /\ nextAvailableTime = MinOf({requests[i].timestamp : i \in PendingIn(requests)}) + DAY_MS
    /\ oldestAccepted = MinAcceptedAt(bRequests)

----------------------------------------------------------------------------
(* A browser session: the page shows the landlord's dashboard or the       *)
(* tenant's, from mount to unmount and back.                               *)

InitSession == Init \/ InitBhadot

NextSession ==
    \/ now <= MaxNow /\ Next
    \/ now >= B0 /\ NextBhadot

SpecSession == InitSession /\ [][NextSession]_vars

(* C17: a step that replaces a mounted dashboard's list leaves the derived *)
(* values of the new list at that moment (landlord: pendingCount,          *)
(* canSendMore, nextAvailableTime; tenant: the countdown); in every state  *)
(* nextAvailableTime and the timestamp the countdown interval closes over  *)
(* are those of the current list, and a tick shows the current list's      *)
(* countdown.                                                              *)
C17_DerivedFollowList ==
    /\ [][(requests' # requests /\ mounted') =>
             /\ pendingCount' =
                   Cardinality({i \in PendingIn(requests') :
                                   requests'[i].timestamp > now' - DAY_MS})
             /\ canSendMore' = (pendingCount' < 2)]_vars
    /\ [](nextAvailableTime =
             IF PendingIn(requests) = {} THEN Null
             ELSE MinOf({requests[i].timestamp : i \in PendingIn(requests)}) + DAY_MS)
    /\ [](canSendMore = (pendingCount < 2))
    /\ [](oldestAccepted =
             IF AcceptedIn(bRequests) = {} THEN Null ELSE MinAcceptedAt(bRequests))
    /\ [][((bRequests' # bRequests /\ bMounted') \/ CountdownTick) =>
             countdown' =
                IF AcceptedIn(bRequests') = {} THEN <<>>
                ELSE <<UpdateCountdown(MinAcceptedAt(bRequests'), now')>>]_vars

C17_Witness ==
    /\ Rendered
    /\ alertMsg = "sent"
    /\ \E i \in PendingIn(requests) : requests[i].timestamp >= T0
    /\ pendingCount = 2
    /\ ~canSendMore
    /\ nextAvailableTime # Null

(* C18: each effect has at most one live interval (limit timer, countdown, *)
(* room-count poll); the limit timer and the poll run exactly while their  *)
(* dashboard is mounted, the countdown exactly while the list holds an     *)
(* Accepted request, and none is live after unmount.                       *)
C18_IntervalsReleased ==
    /\ limitIntervals = (IF mounted THEN 1 ELSE 0)
    /\ bIntervals.rooms = (IF bMounted THEN 1 ELSE 0)
    /\ bIntervals.countdown = (IF oldestAccepted # Null THEN 1 ELSE 0)
    /\ ~bMounted => bIntervals = NoIntervals

C18_Witness ==
    /\ bMounted
    /\ toast = "success"
    /\ bIntervals = [countdown |-> 1, rooms |-> 1]
    /\ Len(AcceptedRequests(bRequests)) > 1
    /\ bLoads # <<>>

(* C19: the list of a mounted dashboard changes only in a step that        *)
(* settles a fetch, and then to what that fetch returned; issuing a send,  *)
(* an accept or a reject, the backend handling it, and its settling        *)
(* (failed or not) leave both lists as they are.                           *)
C19_ListOnlyReplacedByFetch ==
    /\ [][(requests' # requests /\ mounted') =>
             \E i \in 1..Len(loads) : \E out \in Outcomes(loads[i].resp) :
                /\ out.st = "ok"
                /\ requests' = out.requests
                /\ posts' = posts]_vars
    /\ [][(bRequests' # bRequests /\ bMounted') =>
             \E i \in 1..Len(bLoads) :
                /\ bLoads[i].resp.st = "read"
                /\ bRequests' = bLoads[i].resp.requests
                /\ bLoads' = Remove(bLoads, i)
                /\ puts' = puts]_vars
    /\ [][posts' # posts => requests' = requests]_vars
    /\ [][puts' # puts => bRequests' = bRequests]_vars

C19_Witness ==
    /\ BRendered
    /\ toast = "error"
    /\ puts = <<>>
    /\ bLoads = <<>>
    /\ bRequests # <<>>
    /\ \E i \in 1..Len(bRequests) :
          bRequests[i].status = "Pending" /\ bServer[i].status = "Accepted"

Decompose(ms) ==
    LET s == ms \div 1000
    IN  [days |-> s \div 86400,
         hours |-> (s % 86400) \div 3600,
         minutes |-> (s % 3600) \div 60,
         seconds |-> s % 60]

(* C20: every tick of the countdown interval displays the decomposition of *)
(* max(0, oldest Accepted timestamp + 5 days - now) at the clock of that   *)
(* tick, whatever was displayed before and however much time has passed    *)
(* since the last tick.                                                    *)
C20_TickFromCurrentClock ==
    [][CountdownTick =>
          countdown' = <<Decompose(RemainingMs(bRequests, now'))>>]_vars

C20_Witness ==
    /\ bhadot = "loaded"
    /\ bLoads = <<>>
    /\ bIntervals.countdown = 1
    /\ now = 3661001
    /\ oldestAccepted = 1000
    /\ countdown = <<Decompose(1000 + FIVE_DAYS_MS - now)>>
    /\ TotalSeconds(countdown[1]) * 1000 < 1000 + FIVE_DAYS_MS - now

----------------------------------------------------------------------------
(* C21: when sendRentalRequest fails after the local check let the click   *)
(* through, handleSendRequest shows the failure in an alert, no load is    *)
(* started and requests, pendingCount, canSendMore and nextAvailableTime   *)
(* stay as they were until the alert is dismissed, and dismissing it sets  *)
(* sendingRequest to null.                                                 *)

Derived == <<requests, pendingCount, canSendMore, nextAvailableTime>>

C21_RejectedSendReported ==
    /\ [][(\E i \in 1..Len(posts) : PostDone(i, FALSE))
            => /\ alertMsg' = "error"
               /\ loads' = loads
               /\ Derived' = Derived]_vars
    /\ [][alertMsg = "error"
            => /\ Derived' = Derived
               /\ Len(loads') = Len(loads)
               /\ alertMsg' # "error" => (alertMsg' = "none" /\ sendingRequest' = Null)]_vars

(* The click passed the local check, another session filled the cap, and   *)
(* the failure is on the screen.                                           *)
C21_Witness ==
    /\ mounted
    /\ alertMsg = "error"
    /\ sendingRequest # Null
    /\ canSendMore
    /\ Len(ActivePending(server, now)) >= MaxPending
    /\ Len(ActivePending(requests, now)) < MaxPending

----------------------------------------------------------------------------
(* C22: while a sendRentalRequest of this dashboard is in flight, or its   *)
(* reload has not settled yet, the dashboard issues no second              *)
(* sendRentalRequest: neither to another tenant nor to the same one.       *)

SendIssued == Len(posts') > Len(posts)

SendUnsettled ==
    \/ posts # <<>>
    \/ \E i \in 1..Len(loads) : loads[i].by = "send"

C22_NoSecondSendToOther == [][SendIssued => ~SendUnsettled]_vars

C22_NoSecondSendToSame ==
    [][SendIssued => \A i \in 1..Len(posts) :
                        posts[i].bhadotId # posts'[Len(posts')].bhadotId]_vars

C22_NoSecondSendInFlight ==
    /\ C22_NoSecondSendToOther
    /\ C22_NoSecondSendToSame

----------------------------------------------------------------------------
(* C23: the reloads of the limit timer come to an end: when a load that    *)
(* the timer started brings back a list that still yields canSendMore =    *)
(* false with a nextAvailableTime that is not in the future, the dashboard *)
(* does not start another load from it.                                    *)

StillExpired == TimerExpired(nextAvailableTime, canSendMore, now)

C23_TimerReloadsBounded ==
    [][\A i \in 1..Len(loads) :
          (mounted /\ loads[i].by = "timer" /\ LoadDone(i) /\ StillExpired')
              => ~loading']_vars

----------------------------------------------------------------------------
(* The landlord dashboard left alone: it stays mounted, nobody clicks, the *)
(* backend's list does not change and every fetch succeeds.  The clock     *)
(* starts a millisecond before T0 and runs until every request of the list *)
(* has left the 24-hour window.                                            *)

LiveNow0 == T0 - 1
LiveTimes == {LiveNow0 - DAY_MS, LiveNow0 - DAY_MS + 1, LiveNow0 - DAY_MS + 2}

LiveServers ==
    UNION {{[i \in 1..n |-> EvalRequest(i, f[i])] :
              f \in [1..n -> Statuses \X LiveTimes]} : n \in 0..MaxEvalReqs}

InitLive ==
    /\ now = LiveNow0
    /\ server \in LiveServers
    /\ mClientInit
    /\ bServer = <<>>
    /\ bClientInit

(* loadData's try block runs to its end: all three calls answered. *)
LoadSucceeds(i) ==
    /\ ~Frozen
    /\ i \in 1..Len(loads)
    /\ loads[i].resp.st = "read"
    /\ LoadSettles(i, [st |-> "ok", bhadots |-> Bhadots,
                       requests |-> loads[i].resp.requests])
    /\ UNCHANGED <<now, server, mounted, posts, sendingRequest>>
    /\ bUnchanged

NextLive ==
    \/ Mount
    \/ \E i \in 1..MaxInFlight : ServerReplyLoad(i)
    \/ \E i \in 1..MaxInFlight : LoadSucceeds(i)
    \/ TimerTick
    \/ \E d \in ClockSteps : Tick(d)

(* Time passes, the interval fires, the backend answers and the answer     *)
(* arrives.                                                                *)
SpecLive ==
    /\ InitLive
    /\ [][NextLive]_vars
    /\ WF_vars(\E d \in ClockSteps : Tick(d))
    /\ WF_vars(TimerTick)
    /\ WF_vars(\E i \in 1..MaxInFlight : ServerReplyLoad(i))
    /\ WF_vars(\E i \in 1..MaxInFlight : LoadSucceeds(i))

(* C24: a landlord whom the limit blocks (canSendMore false on a mounted   *)
(* dashboard) is let through again without any user action: eventually    *)
(* canSendMore is true.                                                    *)
C24_EventuallyCanSend == (mounted /\ ~loading /\ ~canSendMore) ~> canSendMore

(* The dashboard was blocked by two requests of the list and is free again *)
(* now that they have left the window.                                     *)
C24_Witness ==
    /\ mounted
    /\ ~loading
    /\ canSendMore
    /\ pendingCount < MaxPending
    /\ Len(ActivePending(requests, LiveNow0)) >= MaxPending

----------------------------------------------------------------------------
(* C25: when loadData calls of the landlord dashboard overlap, a call that *)
(* settles after the most recently started one has settled changes nothing *)
(* of requests, pendingCount, canSendMore and nextAvailableTime; and       *)
(* loading is true as long as a call is in flight.                         *)

LatestSettled == \A j \in 1..Len(loads) : ~loads[j].latest

C25_StaleLoadIgnored ==
    [][\A i \in 1..Len(loads) :
          (mounted /\ LatestSettled /\ LoadDone(i)) => Derived' = Derived]_vars

C25_LoadingWhileInFlight == [](mounted /\ loads # <<>> => loading)

C25_LatestLoadWins ==
    /\ C25_StaleLoadIgnored
    /\ C25_LoadingWhileInFlight

----------------------------------------------------------------------------
(* MalikRegister: the search by WhatsApp number and the two forms behind   *)
(* it.  A string is the sequence of its characters.  The name, address and *)
(* password fields of the forms take no part in the steps and are left     *)
(* out; the backend answers a search with any body of the declared type.   *)

PHONE_LEN == 10

Digits == {"0", "1", "2", "3", "4", "5", "6", "7", "8", "9"}

IsDigit(c) == c \in Digits

(* value.replace(/\D/g, '') *)
StripNonDigits(v) == SelectSeq(v, IsDigit)

(* .slice(0, 10) *)
SliceTen(v) == SubSeq(v, 1, IF Len(v) < PHONE_LEN THEN Len(v) ELSE PHONE_LEN)

(* What the number input can be handed by typing, pasting or autofill. *)
RawInputs ==
    {<<>>,
     <<"9", "8", "7", "6", "5">>,
     <<"9", "8", "7", "6", "5", "4", "3", "2", "1">>,
     <<"9", "8", "7", "6", "5", "4", "3", "2", "1", "0">>,
     <<"9", "8", "7", " ", "6", "5", "4", "-", "3", "2">>,
     <<"7", "0", "0", "0", "0", "0", "0", "0", "0", "1">>,
     <<"+", "9", "1", "9", "8", "7", "6", "5", "4", "3", "2", "1", "0">>}

Roles == {"Malik", "Bhadot", "none"}

(* response.data of searchUser: { found, role?, user? } *)
SearchBodies ==
    [found : BOOLEAN, role : Roles, hasUser : BOOLEAN, hasId : BOOLEAN]

(* result.found && result.user *)
UserFound(result) == result.found /\ result.hasUser

(* Mutant: every found user is taken for a landlord. *)
IsMalikUser_AnyRole(result) == result.hasId

(* result.role === 'Malik' && result.user.id *)
IsMalikUser(result) == result.role = "Malik" /\ result.hasId

RegReset ==
    /\ step' = "phone"
    /\ whatsapp' = <<>>
    /\ formWhatsapp' = <<>>
    /\ regError' = ""
    /\ searchResult' = <<>>
    /\ searching' = FALSE
    /\ regLoading' = FALSE

rOthers == UNCHANGED <<mvars, bvars, avars, cvars>>

(* The page is opened (again, once the calls of an earlier visit have      *)
(* settled).                                                               *)
RegMount ==
    /\ ~regMounted
    /\ searches = <<>>
    /\ auths = <<>>
    /\ regMounted' = TRUE
    /\ UNCHANGED <<step, whatsapp, formWhatsapp, regError, searchResult,
                   searching, regLoading, searches, auths>>
    /\ rOthers

(* onChange of the number input *)
ChangeNumber(v) ==
    /\ regMounted
    /\ step = "phone"
    /\ whatsapp' = SliceTen(StripNonDigits(v))
    /\ regError' = ""
    /\ UNCHANGED <<regMounted, step, formWhatsapp, searchResult, searching,
                   regLoading, searches, auths>>
    /\ rOthers

(* handlePhoneSearch up to its await *)
HandlePhoneSearch ==
    LET cleanNumber == StripNonDigits(whatsapp)
    IN  IF Len(cleanNumber) # PHONE_LEN
        THEN /\ regError' = "invalid"
             /\ UNCHANGED <<searching, searches>>
        ELSE /\ regError' = ""
             /\ searching' = TRUE
             /\ searches' = Append(searches, [number |-> cleanNumber])

(* The Continue button: disabled={searching || whatsapp.length !== 10} *)
ClickContinue ==
    /\ regMounted
    /\ step = "phone"
    /\ ~searching
    /\ Len(whatsapp) = PHONE_LEN
    /\ HandlePhoneSearch
    /\ UNCHANGED <<regMounted, step, whatsapp, formWhatsapp, searchResult,
                   regLoading, auths>>
    /\ rOthers

(* handlePhoneSearch after its await; failed is the rejected call.  The    *)
(* state updates of a page that was left are dropped.                      *)
SearchSettles(i, failed, result) ==
    LET cleanNumber == searches[i].number
    IN  /\ searches' = Remove(searches, i)
        /\ IF ~regMounted
           THEN UNCHANGED <<step, formWhatsapp, regError, searchResult, searching>>
           ELSE /\ searching' = FALSE
                /\ IF failed
                   THEN /\ regError' = "search"
                        /\ UNCHANGED <<step, formWhatsapp, searchResult>>
                   ELSE IF UserFound(result)
                   THEN IF IsMalikUser(result)
                        THEN /\ searchResult' = <<[result |-> result,
                                                   number |-> cleanNumber]>>
                             /\ step' = "login"
                             /\ UNCHANGED <<formWhatsapp, regError>>
                        ELSE /\ regError' = "role"
                             /\ UNCHANGED <<step, formWhatsapp, searchResult>>
                   ELSE /\ formWhatsapp' = cleanNumber
                        /\ step' = "details"
                        /\ UNCHANGED <<regError, searchResult>>

SearchDone(i, failed, result) ==
    /\ i \in 1..Len(searches)
    /\ SearchSettles(i, failed, result)
    /\ UNCHANGED <<regMounted, whatsapp, regLoading, auths>>
    /\ rOthers

(* The Back button of the login and of the details form *)
ClickBack ==
    /\ regMounted
    /\ step \in {"login", "details"}
    /\ step' = "phone"
    /\ UNCHANGED <<regMounted, whatsapp, formWhatsapp, regError, searchResult,
                   searching, regLoading, searches, auths>>
    /\ rOthers

(* handleLogin up to its await *)
SubmitLogin ==
    /\ regMounted
    /\ step = "login"
    /\ ~regLoading
    /\ regLoading' = TRUE
    /\ auths' = Append(auths, [kind |-> "login", whatsapp |-> formWhatsapp])
    /\ UNCHANGED <<regMounted, step, whatsapp, formWhatsapp, regError,
                   searchResult, searching, searches>>
    /\ rOthers

(* handleSubmit up to its await *)
SubmitRegister ==
    /\ regMounted
    /\ step = "details"
    /\ ~regLoading
    /\ regError' = ""
    /\ regLoading' = TRUE
    /\ auths' = Append(auths, [kind |-> "register", whatsapp |-> formWhatsapp])
    /\ UNCHANGED <<regMounted, step, whatsapp, formWhatsapp, searchResult,
                   searching, searches>>
    /\ rOthers

AuthOutcomes == {"success", "refused", "throw"}

(* handleLogin and handleSubmit after their await: on success the page     *)
(* navigates to the dashboard and is gone.                                 *)
AuthDone(i, out) ==
    /\ i \in 1..Len(auths)
    /\ auths' = Remove(auths, i)
    /\ IF ~regMounted
       THEN UNCHANGED <<regMounted, step, whatsapp, formWhatsapp, regError,
                        searchResult, searching, regLoading>>
       ELSE IF out = "success"
       THEN /\ regMounted' = FALSE
            /\ RegReset
       ELSE /\ regLoading' = FALSE
            /\ regError' = IF out = "throw" THEN auths[i].kind ELSE regError
            /\ UNCHANGED <<regMounted, step, whatsapp, formWhatsapp,
                           searchResult, searching>>
    /\ UNCHANGED searches
    /\ rOthers

(* navigate('/') from the phone step *)
RegLeave ==
    /\ regMounted
    /\ step = "phone"
    /\ regMounted' = FALSE
    /\ RegReset
    /\ UNCHANGED <<searches, auths>>
    /\ rOthers

InitRegister ==
    /\ now = T0
    /\ server = <<>>
    /\ mClientInit
    /\ bInit

NextRegister ==
    \/ RegMount
    \/ \E v \in RawInputs : ChangeNumber(v)
    \/ ClickContinue
    \/ \E i \in 1..MaxInFlight, failed \in BOOLEAN, result \in SearchBodies :
          SearchDone(i, failed, result)
    \/ ClickBack
    \/ SubmitLogin
    \/ SubmitRegister
    \/ \E i \in 1..MaxInFlight, out \in AuthOutcomes : AuthDone(i, out)
    \/ RegLeave

SpecRegister == InitRegister /\ [][NextRegister]_vars

----------------------------------------------------------------------------
(* C26: in MalikRegister the step becomes 'details' only when a search for *)
(* a 10-digit number comes back without a user, and 'login' only when it   *)
(* comes back with a user of role Malik; every number that reaches the     *)
(* backend has exactly 10 digits; and a search that fails, or finds a user *)
(* that is no landlord, leaves the step at 'phone', sets the error and     *)
(* resets searching.                                                       *)

IsPhoneNumber(v) == Len(v) = PHONE_LEN /\ \A k \in 1..Len(v) : IsDigit(v[k])

SearchCameBack(P(_, _, _)) ==
    \E i \in 1..Len(searches), failed \in BOOLEAN, result \in SearchBodies :
        /\ SearchDone(i, failed, result)
        /\ IsPhoneNumber(searches[i].number)
        /\ P(i, failed, result)

NoUser(i, failed, result) == ~failed /\ ~UserFound(result)

MalikUser(i, failed, result) ==
    ~failed /\ UserFound(result) /\ result.role = "Malik"

Refused(i, failed, result) ==
    failed \/ (UserFound(result) /\ result.role # "Malik")

C26_StepsFollowSearch ==
    /\ [][(step # "details" /\ step' = "details") => SearchCameBack(NoUser)]_vars
    /\ [][(step # "login" /\ step' = "login") => SearchCameBack(MalikUser)]_vars
    /\ [](\A i \in 1..Len(searches) : IsPhoneNumber(searches[i].number))
    /\ [][(regMounted /\ SearchCameBack(Refused))
            => (step' = "phone" /\ regError' # "" /\ ~searching')]_vars

(* A search found the number registered under another role: the page is    *)
(* still at the phone step, with the error set.                            *)
C26_Witness ==
    /\ regMounted
    /\ step = "phone"
    /\ regError = "role"
    /\ ~searching
    /\ IsPhoneNumber(whatsapp)
    /\ searches = <<>>

(* C27: the login request of the 'login' step carries the 10-digit number  *)
(* whose search led to that step.                                          *)
C27_LoginCarriesSearchedNumber ==
    [][(Len(auths') > Len(auths) /\ auths'[Len(auths')].kind = "login")
          => /\ searchResult # <<>>
             /\ auths'[Len(auths')].whatsapp = searchResult[1].number]_vars

----------------------------------------------------------------------------
(* AdminDashboard: the users tab with its two paginated tables, the row    *)
(* editor and the deletion of users.  A user is taken for its id, and      *)
(* editFormData for its keys and the row whose values it holds; the        *)
(* statistics, the transactions, the details modal and the values typed    *)
(* into the row editor are left out.                                       *)

UserRoles == {"Malik", "Bhadot"}

MalikFields == {"name", "whatsapp", "address"}
BhadotFields == {"name", "mobile", "status"}

FieldsOf(role) == IF role = "Malik" THEN MalikFields ELSE BhadotFields

(* The rows the admin acts on *)
ActIds == {1, NumUsers}

Min(a, b) == IF a < b THEN a ELSE b
Max(a, b) == IF a > b THEN a ELSE b

(* Math.ceil(list.length / ITEMS_PER_PAGE) *)
TotalPages(list) == (Len(list) + ITEMS_PER_PAGE - 1) \div ITEMS_PER_PAGE

(* list.slice(startIndex, endIndex) *)
Paginated(list, page) ==
    LET startIndex == (page - 1) * ITEMS_PER_PAGE
        endIndex == startIndex + ITEMS_PER_PAGE
    IN  IF startIndex >= Len(list) THEN <<>>
        ELSE SubSeq(list, startIndex + 1, Min(endIndex, Len(list)))

ListOf(us, role) == IF role = "Malik" THEN us.maliks ELSE us.bhadots

PageOf(role) == IF role = "Malik" THEN malikPage ELSE bhadotPage

EditingOf(role) == IF role = "Malik" THEN editingMalik ELSE editingBhadot

Displayed(role) ==
    LET page == Paginated(ListOf(users, role), PageOf(role))
    IN  {page[k] : k \in 1..Len(page)}

UsersRendered == adminMounted /\ ~adminLoading /\ activeTab = "users"

AdminInFlight == Len(adminLoads) + Len(adminWrites)

Without(list, id) == SelectSeq(list, LAMBDA u : u # id)

ServerWithout(role, id) ==
    IF role = "Malik"
    THEN [adminServer EXCEPT !.maliks = Without(@, id)]
    ELSE [adminServer EXCEPT !.bhadots = Without(@, id)]

AdminReset ==
    /\ users' = [maliks |-> <<>>, bhadots |-> <<>>]
    /\ adminLoading' = TRUE
    /\ activeTab' = "stats"
    /\ malikPage' = 1
    /\ bhadotPage' = 1
    /\ editingMalik' = Null
    /\ editingBhadot' = Null
    /\ editFormData' = EmptyForm
    /\ saving' = FALSE
    /\ adminToast' = "null"

aOthers == UNCHANGED <<mvars, bvars, rvars, cvars>>

(* The mount effect calls loadData. *)
AdminMount ==
    /\ ~adminMounted
    /\ adminLoads = <<>>
    /\ adminWrites = <<>>
    /\ adminMounted' = TRUE
    /\ adminLoading' = TRUE
    /\ adminLoads' = Append(adminLoads, [by |-> "mount", role |-> "none"])
    /\ UNCHANGED <<adminServer, users, activeTab, malikPage, bhadotPage,
                   editingMalik, editingBhadot, editFormData, saving,
                   adminToast, adminWrites>>
    /\ aOthers

AdminLoadOutcomes == {"ok", "throw", "unauthorized"}

(* loadData settles, and the handler that awaited it goes on: loadData     *)
(* catches its own failure, so the handler goes on after a failed load     *)
(* too.  A 401 navigates to the login page.                                *)
AdminLoadDone(i, out) ==
    /\ i \in 1..Len(adminLoads)
    /\ adminLoads' = Remove(adminLoads, i)
    /\ LET l == adminLoads[i]
       IN  IF ~adminMounted
           THEN UNCHANGED <<adminMounted, users, adminLoading, activeTab,
                            malikPage, bhadotPage, editingMalik, editingBhadot,
                            editFormData, saving, adminToast>>
           ELSE IF out = "unauthorized"
           THEN /\ adminMounted' = FALSE
                /\ AdminReset
           ELSE /\ users' = IF out = "ok" THEN adminServer ELSE users
                /\ adminLoading' = FALSE
                /\ editingMalik' = IF l.by = "update" /\ l.role = "Malik"
                                   THEN Null ELSE editingMalik
                /\ editingBhadot' = IF l.by = "update" /\ l.role = "Bhadot"
                                    THEN Null ELSE editingBhadot
                /\ saving' = IF l.by = "update" THEN FALSE ELSE saving
                /\ adminToast' = IF l.by = "update" THEN "updated"
                                 ELSE IF l.by = "delete" THEN "deleted"
                                 ELSE adminToast
                /\ UNCHANGED <<adminMounted, activeTab, malikPage, bhadotPage,
                               editFormData>>
    /\ UNCHANGED <<adminServer, adminWrites>>
    /\ aOthers

SelectTab(tab) ==
    /\ adminMounted
    /\ ~adminLoading
    /\ activeTab' = tab
    /\ UNCHANGED <<adminMounted, adminServer, users, adminLoading, malikPage,
                   bhadotPage, editingMalik, editingBhadot, editFormData,
                   saving, adminToast, adminLoads, adminWrites>>
    /\ aOthers

SetPage(role, p) ==
    IF role = "Malik"
    THEN malikPage' = p /\ UNCHANGED bhadotPage
    ELSE bhadotPage' = p /\ UNCHANGED malikPage

(* Previous: rendered when totalPages > 1, disabled on page 1 *)
PrevPage(role) ==
    /\ UsersRendered
    /\ TotalPages(ListOf(users, role)) > 1
    /\ PageOf(role) # 1
    /\ SetPage(role, Max(1, PageOf(role) - 1))
    /\ UNCHANGED <<adminMounted, adminServer, users, adminLoading, activeTab,
                   editingMalik, editingBhadot, editFormData, saving,
                   adminToast, adminLoads, adminWrites>>
    /\ aOthers

(* Next: rendered when totalPages > 1, disabled on the last page *)
NextPage(role) ==
    /\ UsersRendered
    /\ TotalPages(ListOf(users, role)) > 1
    /\ PageOf(role) # TotalPages(ListOf(users, role))
    /\ SetPage(role, Min(TotalPages(ListOf(users, role)), PageOf(role) + 1))
    /\ UNCHANGED <<adminMounted, adminServer, users, adminLoading, activeTab,
                   editingMalik, editingBhadot, editFormData, saving,
                   adminToast, adminLoads, adminWrites>>
    /\ aOthers

(* handleDeleteUser, confirmed, up to its await *)
ClickDelete(role, id) ==
    /\ UsersRendered
    /\ id \in Displayed(role)
    /\ EditingOf(role) # id
    /\ AdminInFlight < MaxAdminCalls
    /\ adminWrites' = Append(adminWrites,
                             [kind |-> "delete", role |-> role, id |-> id,
                              payload |-> EmptyForm])
    /\ UNCHANGED <<adminMounted, adminServer, users, adminLoading, activeTab,
                   malikPage, bhadotPage, editingMalik, editingBhadot,
                   editFormData, saving, adminToast, adminLoads>>
    /\ aOthers

SetEditing(role, id) ==
    IF role = "Malik"
    THEN editingMalik' = id /\ UNCHANGED editingBhadot
    ELSE editingBhadot' = id /\ UNCHANGED editingMalik

(* handleEditMalik, handleEditBhadot *)
ClickEdit(role, id) ==
    /\ UsersRendered
    /\ id \in Displayed(role)
    /\ EditingOf(role) # id
    /\ SetEditing(role, id)
    /\ editFormData' = [fields |-> FieldsOf(role), role |-> role, id |-> id]
    /\ UNCHANGED <<adminMounted, adminServer, users, adminLoading, activeTab,
                   malikPage, bhadotPage, saving, adminToast, adminLoads,
                   adminWrites>>
    /\ aOthers

(* handleSaveMalik, handleSaveBhadot up to their await *)
ClickSave(role) ==
    /\ UsersRendered
    /\ EditingOf(role) \in Displayed(role)
    /\ ~saving
    /\ AdminInFlight < MaxAdminCalls
    /\ saving' = TRUE
    /\ adminWrites' = Append(adminWrites,
                             [kind |-> "update", role |-> role,
                              id |-> EditingOf(role), payload |-> editFormData])
    /\ UNCHANGED <<adminMounted, adminServer, users, adminLoading, activeTab,
                   malikPage, bhadotPage, editingMalik, editingBhadot,
                   editFormData, adminToast, adminLoads>>
    /\ aOthers

(* handleCancelEdit *)
ClickCancel ==
    /\ UsersRendered
    /\ \E role \in UserRoles : EditingOf(role) \in Displayed(role)
    /\ ~saving
    /\ editingMalik' = Null
    /\ editingBhadot' = Null
    /\ editFormData' = EmptyForm
    /\ UNCHANGED <<adminMounted, adminServer, users, adminLoading, activeTab,
                   malikPage, bhadotPage, saving, adminToast, adminLoads,
                   adminWrites>>
    /\ aOthers

(* deleteUser or update settles: on success the handler awaits loadData.   *)
AdminWriteDone(i, ok) ==
    /\ i \in 1..Len(adminWrites)
    /\ adminWrites' = Remove(adminWrites, i)
    /\ LET w == adminWrites[i]
       IN  /\ adminServer' = IF ok /\ w.kind = "delete"
                             THEN ServerWithout(w.role, w.id) ELSE adminServer
           /\ IF ~adminMounted
              THEN UNCHANGED <<adminLoading, saving, adminToast, adminLoads>>
              ELSE IF ok
              THEN /\ adminLoading' = TRUE
                   /\ adminLoads' = Append(adminLoads,
                                           [by |-> w.kind, role |-> w.role])
                   /\ UNCHANGED <<saving, adminToast>>
              ELSE /\ adminToast' = IF w.kind = "delete" THEN "deleteFailed"
                                    ELSE "updateFailed"
                   /\ saving' = IF w.kind = "update" THEN FALSE ELSE saving
                   /\ UNCHANGED <<adminLoading, adminLoads>>
    /\ UNCHANGED <<adminMounted, users, activeTab, malikPage, bhadotPage,
                   editingMalik, editingBhadot, editFormData>>
    /\ aOthers

(* The toast's onClose *)
CloseToast ==
    /\ adminMounted
    /\ adminToast # "null"
    /\ adminToast' = "null"
    /\ UNCHANGED <<adminMounted, adminServer, users, adminLoading, activeTab,
                   malikPage, bhadotPage, editingMalik, editingBhadot,
                   editFormData, saving, adminLoads, adminWrites>>
    /\ aOthers

(* The header's logout: navigate('/admin/login') *)
AdminLogout ==
    /\ adminMounted
    /\ ~adminLoading
    /\ adminMounted' = FALSE
    /\ AdminReset
    /\ UNCHANGED <<adminServer, adminLoads, adminWrites>>
    /\ aOthers

InitAdmin ==
    /\ now = T0
    /\ server = <<>>
    /\ mClientInit
    /\ bInit

NextAdmin ==
    \/ AdminMount
    \/ \E i \in 1..MaxAdminCalls, out \in AdminLoadOutcomes : AdminLoadDone(i, out)
    \/ \E tab \in {"stats", "users"} : SelectTab(tab)
    \/ \E role \in UserRoles : PrevPage(role)
    \/ \E role \in UserRoles : NextPage(role)
    \/ \E role \in UserRoles, id \in ActIds : ClickDelete(role, id)
    \/ \E role \in UserRoles, id \in ActIds : ClickEdit(role, id)
    \/ \E role \in UserRoles : ClickSave(role)
    \/ ClickCancel
    \/ \E i \in 1..MaxAdminCalls, ok \in BOOLEAN : AdminWriteDone(i, ok)
    \/ CloseToast
    \/ AdminLogout

SpecAdmin == InitAdmin /\ [][NextAdmin]_vars

----------------------------------------------------------------------------
(* C28: in AdminDashboard malikPage and bhadotPage stay within             *)
(* 1..max(1, total pages) of their list, so the page on display is not     *)
(* empty while its list is not.                                            *)

PageInRange(role) ==
    /\ PageOf(role) >= 1
    /\ PageOf(role) <= Max(1, TotalPages(ListOf(users, role)))
    /\ ListOf(users, role) # <<>> => Displayed(role) # {}

C28_PageWithinRange ==
    adminMounted => \A role \in UserRoles : PageInRange(role)

(* C29: in AdminDashboard at most one of editingMalik and editingBhadot is *)
(* set, and the payload of an update call made by Save has the keys that   *)
(* Edit loaded for the row of that role and id.                            *)

UpdateIssued ==
    /\ Len(adminWrites') > Len(adminWrites)
    /\ adminWrites'[Len(adminWrites')].kind = "update"

C29_OneEditorAtATime == [](editingMalik = Null \/ editingBhadot = Null)

C29_PayloadOfSameRow ==
    [][UpdateIssued =>
          LET w == adminWrites'[Len(adminWrites')]
          IN  /\ w.payload.role = w.role
              /\ w.payload.id = w.id
              /\ w.payload.fields = FieldsOf(w.role)]_vars

C29_SaveSendsOwnRow ==
    /\ C29_OneEditorAtATime
    /\ C29_PayloadOfSameRow

----------------------------------------------------------------------------
(* AdminChat: the inbox, the selected conversation and its messages.  The  *)
(* backend answers getMessages with the messages of the conversation asked *)
(* for, as they are when the answer is made.  Sending a message is left    *)
(* out.                                                                    *)

cOthers == UNCHANGED <<mvars, bvars, rvars, avars>>

ChatReset ==
    /\ conversations' = {}
    /\ selectedUser' = Null
    /\ messages' = <<>>
    /\ chatLoading' = FALSE

ChatMount ==
    /\ ~chatMounted
    /\ fetches = <<>>
    /\ chatMounted' = TRUE
    /\ UNCHANGED <<conversations, selectedUser, messages, chatLoading,
                   chatIntervals, fetches, chatServer>>
    /\ cOthers

(* fetchConversations, from the mount effect and its 10-second interval *)
ConversationsArrive ==
    /\ chatMounted
    /\ conversations' = Conversations
    /\ UNCHANGED <<chatMounted, selectedUser, messages, chatLoading,
                   chatIntervals, fetches, chatServer>>
    /\ cOthers

(* A click on a conversation of the inbox; when the id changes, the        *)
(* selected-user effect runs again: the cleanup of its last run, then      *)
(* fetchMessages and a new interval.                                       *)
SelectConversation(u) ==
    /\ chatMounted
    /\ u \in conversations
    /\ u # selectedUser
    /\ Len(fetches) < MaxInFlight
    /\ selectedUser' = u
    /\ chatIntervals' = SetInterval(IF selectedUser # Null
                                    THEN ClearInterval(chatIntervals)
                                    ELSE chatIntervals)
    /\ chatLoading' = TRUE
    /\ fetches' = Append(fetches, [conv |-> u, kind |-> "fetch", phase |-> "get"])
    /\ UNCHANGED <<chatMounted, conversations, messages, chatServer>>
    /\ cOthers

(* The 5-second interval of the selected-user effect; it closes over the   *)
(* selectedUser of the run that started it.                                *)
PollTick ==
    /\ chatIntervals > 0
    /\ selectedUser # Null
    /\ Len(fetches) < MaxInFlight
    /\ fetches' = Append(fetches, [conv |-> selectedUser, kind |-> "poll",
                                  phase |-> "get"])
    /\ UNCHANGED <<chatMounted, conversations, selectedUser, messages,
                   chatLoading, chatIntervals, chatServer>>
    /\ cOthers

(* setMessages(response.data) *)
Arrived(f) == chatServer[f.conv]

(* getMessages settles.  fetchMessages goes on to markAsRead, or gives up  *)
(* in its catch; the poll has only its then.                               *)
GetDone(i, ok) ==
    /\ i \in 1..Len(fetches)
    /\ fetches[i].phase = "get"
    /\ LET f == fetches[i]
       IN  /\ messages' = IF ok /\ chatMounted THEN Arrived(f) ELSE messages
           /\ fetches' = IF ok /\ f.kind = "fetch"
                         THEN [fetches EXCEPT ![i].phase = "mark"]
                         ELSE Remove(fetches, i)
           /\ chatLoading' = IF ~ok /\ f.kind = "fetch" /\ chatMounted
                             THEN FALSE ELSE chatLoading
    /\ UNCHANGED <<chatMounted, conversations, selectedUser, chatIntervals,
                   chatServer>>
    /\ cOthers

(* markAsRead settles: fetchMessages refreshes the inbox on success and    *)
(* ends with its finally.                                                  *)
MarkDone(i, ok) ==
    /\ i \in 1..Len(fetches)
    /\ fetches[i].phase = "mark"
    /\ fetches' = Remove(fetches, i)
    /\ chatLoading' = IF chatMounted THEN FALSE ELSE chatLoading
    /\ conversations' = IF ok /\ chatMounted THEN Conversations ELSE conversations
    /\ UNCHANGED <<chatMounted, selectedUser, messages, chatIntervals, chatServer>>
    /\ cOthers

(* A user writes to the admin. *)
MessageArrives(u) ==
    /\ Len(chatServer[u]) < MaxMsgs
    /\ chatServer' = [chatServer EXCEPT
                        ![u] = Append(@, Message(u, Len(@) + 1))]
    /\ UNCHANGED <<chatMounted, conversations, selectedUser, messages,
                   chatLoading, chatIntervals, fetches>>
    /\ cOthers

(* The admin leaves the tab of the chat: the cleanup of the effect runs. *)
ChatUnmount ==
    /\ chatMounted
    /\ chatMounted' = FALSE
    /\ chatIntervals' = IF selectedUser # Null THEN ClearInterval(chatIntervals)
                        ELSE chatIntervals
    /\ ChatReset
    /\ UNCHANGED <<fetches, chatServer>>
    /\ cOthers

InitChat ==
    /\ now = T0
    /\ server = <<>>
    /\ mClientInit
    /\ bInit

NextChat ==
    \/ ChatMount
    \/ ConversationsArrive
    \/ \E u \in Conversations : SelectConversation(u)
    \/ PollTick
    \/ \E i \in 1..MaxInFlight, ok \in BOOLEAN : GetDone(i, ok)
    \/ \E i \in 1..MaxInFlight, ok \in BOOLEAN : MarkDone(i, ok)
    \/ \E u \in Conversations : MessageArrives(u)
    \/ ChatUnmount

SpecChat == InitChat /\ [][NextChat]_vars

(* C30: in AdminChat, whenever no request is in flight, every message on   *)
(* display belongs to the conversation that is selected.                   *)
C30_MessagesOfSelected ==
    (chatMounted /\ fetches = <<>> /\ selectedUser # Null)
        => \A k \in 1..Len(messages) : messages[k].conv = selectedUser

====
